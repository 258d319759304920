------------------------------ MODULE Sessions ------------------------------
(***************************************************************************)
(* The sessions of one account: signing in, the socket handshake, password *)
(* changes, and every way a device is signed out                           *)
(* (internal/api/handlers_auth.go, handlers_admin.go, challenges.go,       *)
(* ws.go over internal/store and internal/ws/hub.go).                      *)
(*                                                                         *)
(* Rows of devices live in the database, connections in the hub, pending   *)
(* challenges in memory; each is changed in a step of its own, and the     *)
(* requests in Requests interleave between those steps.  A connection that *)
(* the hub closes stops carrying frames at once, so closing and removing   *)
(* it are one step; the connections of one device are one socket.          *)
(***************************************************************************)
EXTENDS Integers, FiniteSets

CONSTANTS
    Devices,        \* device ids, each given out once
    Requests,       \* slots for requests being served at the same time
    Scenes,         \* the circumstances a run looks at, one for each behaviour
    None,           \* no device
    MaxGen,         \* bound: password changes of any scene
    MaxChallenge    \* bound: challenges issued in any scene

\* admin: whether administrators act on the account; faults: whether requests
\* may be abandoned and the server restart; gens, challenges: bounds.  Busy counts
\* the slots.
ASSUME SessionsAssumption ==
    /\ None \notin Devices /\ IsFiniteSet(Requests)
    /\ MaxGen \in Nat /\ MaxChallenge \in Nat
    /\ Scenes \subseteq [admin : BOOLEAN, faults : BOOLEAN,
                         gens : 0..MaxGen, challenges : 0..MaxChallenge]

VARIABLES
    scene,      \* the circumstances of this behaviour
    gen,        \* which password auth_hash belongs to
    disabled,   \* accounts.disabled
    deleted,    \* accounts.deleted_at is set
    devices,    \* the rows of table devices
    signedWith, \* history: the password each device signed in with, -1 before
    sockets,    \* devices with a connection in the hub
    pending,    \* challengeStore.byDevice, 0 for none
    issued,     \* the last challenge issued
    taken,      \* history: how often each challenge carried a change
    req,        \* the requests being served
    cleared,    \* history: the last change with sign_out_others, and its device
    late,       \* history: connections added after their device was signed out
    unlisted,   \* history: devices deleted without being on the list to close
    behind      \* history: devices of sign-ins that a password change overtook

accountVars == <<scene, gen, disabled, deleted>>
history == <<cleared, late, unlisted, behind>>
challengeVars == <<pending, issued, taken>>
vars == <<accountVars, devices, signedWith, sockets, challengeVars, req, history>>

Gens == 0..MaxGen
Challenges == 1..MaxChallenge

Steps == {"idle", "login", "handshake", "issue", "prove", "update", "event", "close",
          "forgotten", "flag", "list", "purge", "erase"}

\* dev: the device that asks; about: the device to sign out; proof: the
\* challenge signed, 0 for a proof by the old password; out: sign_out_others;
\* flag: the new value of disabled, or a logout; was: disabled as it was read;
\* gone: the devices to close; erase: the account goes afterwards; there
\* (history): connections as old as the change that have not heard of it.
Request == [at : Steps, dev : Devices \cup {None}, about : Devices \cup {None},
            gen : Gens, proof : 0..MaxChallenge, out : BOOLEAN, flag : BOOLEAN, was : BOOLEAN,
            gone : SUBSET Devices, there : SUBSET Devices, erase : BOOLEAN]

Idle == [at |-> "idle", dev |-> None, about |-> None, gen |-> 0, proof |-> 0,
         out |-> FALSE, flag |-> FALSE, was |-> FALSE, gone |-> {}, there |-> {}, erase |-> FALSE]

Free(h)      == req[h].at = "idle"
Become(h, r) == req' = [req EXCEPT ![h] = r]
Finish(h)    == Become(h, Idle)

\* How many requests are at one of these steps; bounds count what they may add.
Busy(steps) == Cardinality({h \in Requests : req[h].at \in steps})

\* auth.Authenticate.
Authenticated(d) == d \in devices /\ ~disabled

\* The first device signed in at registration.
Init ==
    /\ scene \in Scenes
    /\ gen = 0 /\ disabled = FALSE /\ deleted = FALSE
    /\ devices \in {{d} : d \in Devices}
    /\ signedWith = [d \in Devices |-> IF d \in devices THEN 0 ELSE -1]
    /\ sockets = {}
    /\ pending = [d \in Devices |-> 0]
    /\ issued = 0
    /\ taken = [c \in Challenges |-> 0]
    /\ req = [h \in Requests |-> Idle]
    /\ cleared = [gen |-> 0, by |-> None]
    /\ late = {} /\ unlisted = {} /\ behind = {}

(***************************************************************************)
(* POST /auth/login.                                                       *)
(***************************************************************************)
\* The password is compared with the row that was read ...
LoginStart(h) ==
    /\ Free(h)
    /\ ~disabled /\ ~deleted
    /\ Busy({"login"}) < Cardinality({d \in Devices : signedWith[d] = -1})
    /\ Become(h, [Idle EXCEPT !.at = "login", !.gen = gen])
    /\ UNCHANGED <<accountVars, devices, signedWith, sockets, challengeVars, history>>

\* ... and the device inserted whatever has become of the account since.
LoginStore(h) ==
    /\ req[h].at = "login"
    /\ \E d \in {e \in Devices : signedWith[e] = -1} :
         /\ devices' = devices \cup {d}
         /\ signedWith' = [signedWith EXCEPT ![d] = req[h].gen]
         /\ behind' = IF req[h].gen = gen THEN behind ELSE behind \cup {d}
    /\ Finish(h)
    /\ UNCHANGED <<accountVars, sockets, challengeVars, cleared, late, unlisted>>

(***************************************************************************)
(* The socket.                                                             *)
(***************************************************************************)
\* The first frame of the socket carries the token.
HandshakeStart(h, d) ==
    /\ Free(h)
    /\ Authenticated(d)
    /\ Become(h, [Idle EXCEPT !.at = "handshake", !.dev = d])
    /\ UNCHANGED <<accountVars, devices, signedWith, sockets, challengeVars, history>>

\* Hub.Add.
HandshakeAdd(h) ==
    LET d == req[h].dev IN
    /\ req[h].at = "handshake"
    /\ sockets' = sockets \cup {d}
    /\ late' = IF d \in devices THEN late ELSE late \cup {d}
    /\ Finish(h)
    /\ UNCHANGED <<accountVars, devices, signedWith, challengeVars, cleared,
                   unlisted, behind>>

\* The requests once the connections in S are gone.
Without(requests, S) == [h \in Requests |-> [requests[h] EXCEPT !.there = @ \ S]]

\* The client goes away.
Hangup(d) ==
    /\ d \in sockets
    /\ sockets' = sockets \ {d}
    /\ req' = Without(req, {d})
    /\ UNCHANGED <<accountVars, devices, signedWith, challengeVars, history>>

(***************************************************************************)
(* POST /auth/password/challenge and /auth/password.                       *)
(***************************************************************************)
IssueStart(h, d) ==
    /\ Free(h)
    /\ Authenticated(d)
    /\ issued + Busy({"issue"}) < scene.challenges
    /\ Become(h, [Idle EXCEPT !.at = "issue", !.dev = d])
    /\ UNCHANGED <<accountVars, devices, signedWith, sockets, challengeVars, history>>

\* challengeStore.issue replaces what was pending.
Issue(h) ==
    /\ req[h].at = "issue"
    /\ issued' = issued + 1
    /\ pending' = [pending EXCEPT ![req[h].dev] = issued + 1]
    /\ Finish(h)
    /\ UNCHANGED <<accountVars, devices, signedWith, sockets, taken, history>>

\* A challenge expires.
Expire(d) ==
    /\ pending[d] # 0
    /\ pending' = [pending EXCEPT ![d] = 0]
    /\ UNCHANGED <<accountVars, devices, signedWith, sockets, issued, taken, req, history>>

\* The account is loaded; an old client proves the password right away.
ChangeStart(h, d, c, out) ==
    /\ Free(h)
    /\ Authenticated(d) /\ ~deleted
    /\ c <= issued
    /\ gen + Busy({"prove", "update"}) < scene.gens
    /\ Become(h, [Idle EXCEPT !.at = IF c = 0 THEN "update" ELSE "prove",
                              !.dev = d, !.proof = c, !.out = out])
    /\ UNCHANGED <<accountVars, devices, signedWith, sockets, challengeVars, history>>

\* Mutant: the challenge is left where it is.
ChangeProveKeeps(h) ==
    LET q == req[h] IN
    /\ q.at = "prove"
    /\ pending[q.dev] = q.proof
    /\ taken' = [taken EXCEPT ![q.proof] = @ + 1]
    /\ Become(h, [q EXCEPT !.at = "update"])
    /\ UNCHANGED <<accountVars, devices, signedWith, sockets, pending, issued, history>>

\* challengeStore.take: the pending challenge matches and is consumed ...
ChangeProve(h) ==
    LET q == req[h] IN
    /\ q.at = "prove"
    /\ pending[q.dev] = q.proof
    /\ pending' = [pending EXCEPT ![q.dev] = 0]
    /\ taken' = [taken EXCEPT ![q.proof] = @ + 1]
    /\ Become(h, [q EXCEPT !.at = "update"])
    /\ UNCHANGED <<accountVars, devices, signedWith, sockets, issued, history>>

\* ... or it does not, and stays pending.
ChangeRefuse(h) ==
    /\ req[h].at = "prove"
    /\ pending[req[h].dev] # req[h].proof
    /\ Finish(h)
    /\ UNCHANGED <<accountVars, devices, signedWith, sockets, challengeVars, history>>

\* Mutant: the transaction updates the password only.
ChangeStoreKeepsDevices(h) ==
    LET q == req[h]
        gone == IF q.out THEN devices \ {q.dev} ELSE {}
    IN
    /\ q.at = "update"
    /\ ~deleted
    /\ gen' = gen + 1
    /\ cleared' = IF q.out THEN [gen |-> gen + 1, by |-> q.dev] ELSE cleared
    /\ Become(h, [q EXCEPT !.at = "event", !.gone = gone, !.there = sockets])
    /\ UNCHANGED <<scene, disabled, deleted, devices, signedWith, sockets, challengeVars, late,
                   unlisted, behind>>

\* UpdatePassword: the new password and the sign-outs are one transaction.
ChangeStore(h) ==
    LET q == req[h]
        gone == IF q.out THEN devices \ {q.dev} ELSE {}
    IN
    /\ q.at = "update"
    /\ ~deleted
    /\ gen' = gen + 1
    /\ devices' = devices \ gone
    /\ cleared' = IF q.out THEN [gen |-> gen + 1, by |-> q.dev] ELSE cleared
    /\ Become(h, [q EXCEPT !.at = "event", !.gone = gone, !.there = sockets])
    /\ UNCHANGED <<scene, disabled, deleted, signedWith, sockets, challengeVars, late, unlisted,
                   behind>>

ChangeMissing(h) ==
    /\ req[h].at = "update"
    /\ deleted
    /\ Finish(h)
    /\ UNCHANGED <<accountVars, devices, signedWith, sockets, challengeVars, history>>

\* Request q with the devices in gone left to close, or after the last.
Closing(q, gone) ==
    IF gone # {} THEN [q EXCEPT !.at = "close", !.gone = gone]
    ELSE IF q.erase THEN [Idle EXCEPT !.at = "erase"]
    ELSE Idle

\* password.changed goes to every connection before any is closed.
ChangeEvent(h) ==
    /\ req[h].at = "event"
    /\ Become(h, Closing([req[h] EXCEPT !.there = @ \ sockets], req[h].gone))
    /\ UNCHANGED <<accountVars, devices, signedWith, sockets, challengeVars, history>>

(***************************************************************************)
(* Signing devices out.                                                    *)
(***************************************************************************)
\* Mutant: the connection of the device that asked is closed instead.
CloseAsker(h) ==
    LET q == req[h] IN
    /\ q.at = "close"
    /\ \E d \in q.gone :
         /\ sockets' = sockets \ {q.dev}
         /\ pending' = IF q.out THEN [pending EXCEPT ![d] = 0] ELSE pending
         /\ req' = Without([req EXCEPT ![h] = Closing(q, q.gone \ {d})], {q.dev})
    /\ UNCHANGED <<accountVars, devices, signedWith, issued, taken, history>>

\* Hub.CloseDevice, once for each device signed out.  Only changePassword
\* forgets the challenge here as well.
Close(h) ==
    LET q == req[h] IN
    /\ q.at = "close"
    /\ \E d \in q.gone :
         /\ sockets' = sockets \ {d}
         /\ pending' = IF q.out THEN [pending EXCEPT ![d] = 0] ELSE pending
         /\ req' = Without([req EXCEPT ![h] = Closing(q, q.gone \ {d})], {d})
    /\ UNCHANGED <<accountVars, devices, signedWith, issued, taken, history>>

\* logout and deleteDevice forget the challenge first ...
DropStart(h, d, e, logout) ==
    /\ Free(h)
    /\ logout => e = d
    /\ Authenticated(d)
    /\ pending' = [pending EXCEPT ![e] = 0]
    /\ Become(h, [Idle EXCEPT !.at = "forgotten", !.dev = d, !.about = e, !.flag = logout])
    /\ UNCHANGED <<accountVars, devices, signedWith, sockets, issued, taken, history>>

\* Mutant: the row is deleted, the socket stays open.
DropStoreSilent(h) ==
    LET q == req[h] IN
    /\ q.at = "forgotten"
    /\ devices' = devices \ {q.about}
    /\ Finish(h)
    /\ UNCHANGED <<accountVars, signedWith, sockets, challengeVars, history>>

\* ... then delete the row and close the socket.  A logout closes it even when
\* the row was gone already, deleteDevice answers 404.
DropStore(h) ==
    LET q == req[h] IN
    /\ q.at = "forgotten"
    /\ devices' = devices \ {q.about}
    /\ IF q.about \in devices \/ q.flag
       THEN Become(h, [q EXCEPT !.at = "close", !.gone = {q.about}])
       ELSE Finish(h)
    /\ UNCHANGED <<accountVars, signedWith, sockets, challengeVars, history>>

(***************************************************************************)
(* The administrator: PATCH and DELETE /admin/users/{id}, .../logout.      *)
(***************************************************************************)
\* adminPatchUser reads the flags ...
FlagStart(h, flag) ==
    /\ scene.admin /\ Free(h) /\ ~deleted
    /\ Become(h, [Idle EXCEPT !.at = "flag", !.flag = flag, !.was = disabled])
    /\ UNCHANGED <<accountVars, devices, signedWith, sockets, challengeVars, history>>

\* ... and writes them; an account it found enabled and disabled is signed out.
FlagStore(h) ==
    LET q == req[h] IN
    /\ q.at = "flag"
    /\ disabled' = q.flag
    /\ IF q.flag /\ ~q.was
       THEN Become(h, [Idle EXCEPT !.at = "list"])
       ELSE Finish(h)
    /\ UNCHANGED <<scene, gen, deleted, devices, signedWith, sockets, challengeVars, history>>

\* adminLogoutUser, and adminDeleteUser with erase.
SignOutStart(h, erase) ==
    /\ scene.admin /\ Free(h) /\ ~deleted
    /\ Become(h, [Idle EXCEPT !.at = "list", !.erase = erase])
    /\ UNCHANGED <<accountVars, devices, signedWith, sockets, challengeVars, history>>

\* DeleteAllDevices lists the devices in one statement ...
SignOutList(h) ==
    /\ req[h].at = "list"
    /\ Become(h, [req[h] EXCEPT !.at = "purge", !.gone = devices])
    /\ UNCHANGED <<accountVars, devices, signedWith, sockets, challengeVars, history>>

\* ... and deletes them in another.
SignOutPurge(h) ==
    LET q == req[h] IN
    /\ q.at = "purge"
    /\ devices' = {}
    /\ unlisted' = unlisted \cup (devices \ q.gone)
    /\ Become(h, Closing(q, q.gone))
    /\ UNCHANGED <<accountVars, signedWith, sockets, challengeVars, cleared, late,
                   behind>>

\* store.DeleteAccount deletes what devices there are, and closes none.
Erase(h) ==
    /\ req[h].at = "erase"
    /\ ~deleted
    /\ deleted' = TRUE /\ disabled' = TRUE
    /\ devices' = {}
    /\ unlisted' = unlisted \cup devices
    /\ Finish(h)
    /\ UNCHANGED <<scene, gen, signedWith, sockets, challengeVars, cleared, late, behind>>

EraseMissing(h) ==
    /\ req[h].at = "erase"
    /\ deleted
    /\ Finish(h)
    /\ UNCHANGED <<accountVars, devices, signedWith, sockets, challengeVars, history>>

(***************************************************************************)
(* What can go wrong.                                                      *)
(***************************************************************************)
\* The client of a request hangs up and its next query fails; the steps that
\* need no query always follow.
Abandon(h) ==
    /\ scene.faults
    /\ req[h].at \notin {"idle", "event", "close"}
    /\ Finish(h)
    /\ UNCHANGED <<accountVars, devices, signedWith, sockets, challengeVars, history>>

\* The server restarts: connections and challenges are gone.
Restart ==
    /\ scene.faults
    /\ sockets' = {}
    /\ pending' = [d \in Devices |-> 0]
    /\ req' = [h \in Requests |-> Idle]
    /\ UNCHANGED <<accountVars, devices, signedWith, issued, taken, history>>

(***************************************************************************)
(* The specification.                                                      *)
(***************************************************************************)
\* A request that was accepted goes on by itself.
Continue(h) ==
    \/ LoginStore(h)
    \/ HandshakeAdd(h)
    \/ Issue(h)
    \/ ChangeProve(h) \/ ChangeRefuse(h) \/ ChangeStore(h) \/ ChangeMissing(h) \/ ChangeEvent(h)
    \/ Close(h)
    \/ DropStore(h)
    \/ FlagStore(h) \/ SignOutList(h) \/ SignOutPurge(h)
    \/ Erase(h) \/ EraseMissing(h)

Accept(h) ==
    \/ LoginStart(h)
    \/ \E d \in Devices : HandshakeStart(h, d) \/ IssueStart(h, d)
    \/ \E d \in Devices, c \in 0..MaxChallenge, out \in BOOLEAN : ChangeStart(h, d, c, out)
    \/ \E d, e \in Devices, logout \in BOOLEAN : DropStart(h, d, e, logout)
    \/ \E flag \in BOOLEAN : FlagStart(h, flag)
    \/ \E erase \in BOOLEAN : SignOutStart(h, erase)

Next ==
    \/ \E h \in Requests : Accept(h) \/ Continue(h) \/ Abandon(h)
    \/ \E d \in Devices : Hangup(d) \/ Expire(d)
    \/ Restart

Spec == Init /\ [][Next]_vars

\* Every accepted request goes on until it is answered.
Fairness == \A h \in Requests : WF_vars(Continue(h))

FairSpec == Spec /\ Fairness

(***************************************************************************)
(* Type invariant.                                                         *)
(***************************************************************************)
TypeOK ==
    /\ gen \in Gens /\ disabled \in BOOLEAN /\ deleted \in BOOLEAN
    /\ devices \subseteq Devices
    /\ signedWith \in [Devices -> Gens \cup {-1}]
    /\ sockets \subseteq Devices
    /\ pending \in [Devices -> 0..MaxChallenge]
    /\ issued \in 0..MaxChallenge
    /\ taken \in [Challenges -> Nat]
    /\ req \in [Requests -> Request]
    /\ cleared \in [gen : Gens, by : Devices \cup {None}]
    /\ late \subseteq Devices /\ unlisted \subseteq Devices /\ behind \subseteq Devices

(***************************************************************************)
(* Safety.                                                                 *)
(***************************************************************************)
\* A request is about to close the socket of d.
AboutToClose(d) == \E h \in Requests : req[h].at \in {"event", "close"} /\ d \in req[h].gone

\* A socket without a session is about to be closed, unless its handshake
\* overtook the sign-out or its device was missing from the list of
\* DeleteAllDevices: there is no third way to be left connected.
SocketsAccountedFor ==
    \A d \in sockets \ devices : AboutToClose(d) \/ d \in late \cup unlisted

\* After a password change with sign_out_others, whoever is signed in is the
\* device that made it, knows a password at least as new, or came in by a
\* sign-in that had its password checked before the change and its device
\* inserted after it.
OldPasswordsAreOut ==
    \A d \in devices :
        signedWith[d] >= cleared.gen \/ d = cleared.by \/ d \in behind

\* A challenge carries one attempt, however often it is presented and however
\* many requests present it at the same time (challengeStore.take).
ChallengesCarryOnce == \A c \in Challenges : taken[c] <= 1

\* No device is cut off by a password change before the connections that were
\* there when it was committed have been told of it (handlers_auth.go:260).
ToldBeforeClosed == \A h \in Requests : req[h].at = "close" => req[h].there = {}

\* The state is well formed, no challenge carried two changes, and nobody was cut
\* off untold.
Consistent == TypeOK /\ ChallengesCarryOnce /\ ToldBeforeClosed

\* A device that was signed out, by whatever way, while it was connected loses
\* its connection, the two overlaps aside.
SignedOutGetClosed ==
    \A d \in Devices :
        AboutToClose(d) ~> ~AboutToClose(d) /\ (d \in sockets => d \in devices \cup late)

=============================================================================
