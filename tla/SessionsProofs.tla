--------------------------- MODULE SessionsProofs ---------------------------
(***************************************************************************)
(* Theorems about Sessions, for any devices, requests and scenes: whatever *)
(* requests interleave, are abandoned or are lost in a restart.            *)
(***************************************************************************)
EXTENDS Sessions, FiniteSetTheorems, TLAPS

(***************************************************************************)
(* The inductive invariant.                                                *)
(***************************************************************************)
\* What a request carries at its step, where s are the connections: whose it is,
\* the challenge it presents, and only before its event connections to be told.
RequestOK(r, s) ==
    /\ r \in Request
    /\ r.at \in {"handshake", "issue", "prove", "update"} => r.dev \in Devices
    /\ r.at = "forgotten" => r.about \in Devices
    /\ r.at = "prove" => r.proof # 0
    /\ r.there \subseteq (IF r.at = "event" THEN s ELSE {})

RequestsOK ==
    /\ req \in [Requests -> Request]
    /\ \A h \in Requests : RequestOK(req[h], sockets)

\* The bounds of the scene hold for what was done and is under way.
Bounded ==
    /\ scene \in Scenes /\ gen \in Nat /\ issued \in Nat
    /\ gen + Busy({"prove", "update"}) <= scene.gens
    /\ issued + Busy({"issue"}) <= scene.challenges

\* The variables of the devices.
DevicesTyped ==
    /\ disabled \in BOOLEAN /\ deleted \in BOOLEAN
    /\ devices \subseteq Devices /\ sockets \subseteq Devices
    /\ signedWith \in [Devices -> Gens \cup {-1}]
    /\ late \subseteq Devices /\ unlisted \subseteq Devices /\ behind \subseteq Devices

\* The last change that signed others out is no newer than the password.
ClearedIsPast == cleared \in [gen : Gens, by : Devices \cup {None}] /\ cleared.gen <= gen

\* A pending challenge is of one device and has carried nothing; one that was not
\* issued is not pending.
PendingUnused ==
    /\ pending \in [Devices -> 0..MaxChallenge]
    /\ taken \in [Challenges -> Nat]
    /\ \A d \in Devices : pending[d] <= issued
    /\ \A d \in Devices : pending[d] # 0 => taken[pending[d]] = 0
    /\ \A d, e \in Devices : pending[d] # 0 /\ pending[d] = pending[e] => d = e
    /\ \A c \in Challenges : taken[c] <= 1 /\ (c > issued => taken[c] = 0)

IInv ==
    /\ RequestsOK /\ Bounded /\ DevicesTyped /\ ClearedIsPast /\ PendingUnused
    /\ SocketsAccountedFor /\ OldPasswordsAreOut

(***************************************************************************)
(* Requests.                                                               *)
(***************************************************************************)
\* The step leaves every request but h where it was, with what it has to close.
Others(h) == \A k \in Requests \ {h} : req'[k].at = req[k].at /\ req'[k].gone = req[k].gone

\* A slot without a request is well formed.
LEMMA IdleOK ==
  /\ Idle \in Request /\ Idle.at = "idle" /\ Idle.gone = {} /\ Idle.there = {}
  /\ \A s : RequestOK(Idle, s)
<1>1. 0 \in Gens /\ 0 \in 0..MaxChallenge
  BY SessionsAssumption DEF Gens
<1>2. Idle \in Request /\ Idle.at = "idle" /\ Idle.gone = {} /\ Idle.there = {}
  BY <1>1 DEF Idle, Request, Steps
<1> QED BY <1>2 DEF RequestOK

\* A request that has devices left to close, or had none.
LEMMA ClosingOK ==
  ASSUME NEW q \in Request, q.there = {}, NEW gone \in SUBSET Devices, NEW s
  PROVE  /\ RequestOK(Closing(q, gone), s)
         /\ Closing(q, gone).at \in {"close", "erase", "idle"}
         /\ gone # {} => Closing(q, gone).at = "close" /\ Closing(q, gone).gone = gone
<1>1. CASE gone # {}
  <2>1. Closing(q, gone) = [q EXCEPT !.at = "close", !.gone = gone]
    BY <1>1 DEF Closing
  <2> QED BY <1>1, <2>1 DEF RequestOK, Request, Steps
<1>2. CASE gone = {} /\ q.erase
  <2>1. Closing(q, gone) = [Idle EXCEPT !.at = "erase"]
    BY <1>2 DEF Closing
  <2> QED BY <1>2, <2>1, IdleOK DEF RequestOK, Request, Steps
<1>3. CASE gone = {} /\ ~q.erase
  <2>1. Closing(q, gone) = Idle
    BY <1>3 DEF Closing
  <2> QED BY <1>3, <2>1, IdleOK
<1> QED BY <1>1, <1>2, <1>3

\* A step that writes one request, while no connection is removed.
LEMMA BecomeOK ==
  ASSUME RequestsOK, NEW h \in Requests, NEW r, Become(h, r), RequestOK(r, sockets'),
         sockets \subseteq sockets'
  PROVE  RequestsOK' /\ Others(h) /\ req'[h] = r
<1>1. r \in Request /\ req \in [Requests -> Request]
  BY DEF RequestsOK, RequestOK
<1>2. req' \in [Requests -> Request] /\ req'[h] = r /\ \A k \in Requests \ {h} : req'[k] = req[k]
  BY <1>1 DEF Become
<1>3. \A k \in Requests : RequestOK(req[k], sockets')
  BY DEF RequestsOK, RequestOK
<1>4. \A k \in Requests : RequestOK(req'[k], sockets')
  BY <1>2, <1>3
<1> QED BY <1>2, <1>4 DEF RequestsOK, Others

\* A step that removes connections takes them from what requests have to tell.
LEMMA WithoutOK ==
  ASSUME NEW f \in [Requests -> Request], \A k \in Requests : RequestOK(f[k], sockets),
         NEW S, sockets' = sockets \ S, req' = Without(f, S)
  PROVE  /\ RequestsOK'
         /\ \A k \in Requests : req'[k].at = f[k].at /\ req'[k].gone = f[k].gone
<1>1. ASSUME NEW k \in Requests
      PROVE  RequestOK(req'[k], sockets') /\ req'[k].at = f[k].at /\ req'[k].gone = f[k].gone
  <2>1. f[k] \in Request /\ RequestOK(f[k], sockets) /\ req'[k] = [f[k] EXCEPT !.there = @ \ S]
    BY DEF Without
  <2>2. /\ req'[k] \in Request
        /\ req'[k].at = f[k].at /\ req'[k].gone = f[k].gone /\ req'[k].dev = f[k].dev
        /\ req'[k].about = f[k].about /\ req'[k].proof = f[k].proof
        /\ req'[k].there = f[k].there \ S
    BY <2>1 DEF Request
  <2>3. req'[k].there \subseteq (IF req'[k].at = "event" THEN sockets' ELSE {})
    BY <2>1, <2>2 DEF RequestOK
  <2> QED BY <2>1, <2>2, <2>3 DEF RequestOK
<1>2. req' \in [Requests -> Request]
  BY <1>1 DEF RequestOK, Without
<1> QED BY <1>1, <1>2 DEF RequestsOK

\* A request that is accepted begins in a free slot and is counted by its bound.
LEMMA AcceptEffect ==
  ASSUME RequestsOK, Bounded, DevicesTyped, NEW h \in Requests, Accept(h)
  PROVE  /\ RequestsOK' /\ Others(h) /\ Free(h)
         /\ UNCHANGED <<accountVars, devices, signedWith, sockets, issued, taken, history>>
         /\ pending' = pending \/ \E e \in Devices : pending' = [pending EXCEPT ![e] = 0]
         /\ req'[h].at \in {"prove", "update"} => gen + Busy({"prove", "update"}) < scene.gens
         /\ req'[h].at = "issue" => issued + Busy({"issue"}) < scene.challenges
<1>1. ASSUME NEW r, Become(h, r), RequestOK(r, sockets), sockets' = sockets
      PROVE  RequestsOK' /\ Others(h) /\ req'[h] = r
  BY <1>1, BecomeOK
<1>2. gen \in Gens
  BY SessionsAssumption, FS_Subset, FS_CardinalityType DEF Bounded, Busy, Gens
<1>3. CASE LoginStart(h)
  <2> DEFINE r == [Idle EXCEPT !.at = "login", !.gen = gen]
  <2>1. RequestOK(r, sockets) /\ r.at = "login"
    BY <1>2, IdleOK DEF RequestOK, Request, Steps
  <2>2. Become(h, r) /\ Free(h) /\ UNCHANGED <<accountVars, devices, signedWith, sockets, challengeVars, history>>
    BY <1>3 DEF LoginStart
  <2> QED BY <2>1, <2>2, <1>1 DEF challengeVars
<1>4. CASE \E d \in Devices : HandshakeStart(h, d) \/ IssueStart(h, d)
  <2>1. PICK d \in Devices : HandshakeStart(h, d) \/ IssueStart(h, d)
    BY <1>4
  <2>2. CASE HandshakeStart(h, d)
    <3> DEFINE r == [Idle EXCEPT !.at = "handshake", !.dev = d]
    <3>1. RequestOK(r, sockets) /\ r.at = "handshake"
      BY IdleOK DEF RequestOK, Request, Steps
    <3>2. Become(h, r) /\ Free(h) /\ UNCHANGED <<accountVars, devices, signedWith, sockets, challengeVars, history>>
      BY <2>2 DEF HandshakeStart
    <3> QED BY <3>1, <3>2, <1>1 DEF challengeVars
  <2>3. CASE IssueStart(h, d)
    <3> DEFINE r == [Idle EXCEPT !.at = "issue", !.dev = d]
    <3>1. RequestOK(r, sockets) /\ r.at = "issue"
      BY IdleOK DEF RequestOK, Request, Steps
    <3>2. /\ Become(h, r) /\ Free(h) /\ issued + Busy({"issue"}) < scene.challenges
          /\ UNCHANGED <<accountVars, devices, signedWith, sockets, challengeVars, history>>
      BY <2>3 DEF IssueStart
    <3> QED BY <3>1, <3>2, <1>1 DEF challengeVars
  <2> QED BY <2>1, <2>2, <2>3
<1>5. CASE \E d \in Devices, c \in 0..MaxChallenge, out \in BOOLEAN : ChangeStart(h, d, c, out)
  <2>1. PICK d \in Devices, c \in 0..MaxChallenge, out \in BOOLEAN : ChangeStart(h, d, c, out)
    BY <1>5
  <2> DEFINE r == [Idle EXCEPT !.at = IF c = 0 THEN "update" ELSE "prove", !.dev = d, !.proof = c, !.out = out]
  <2>2. RequestOK(r, sockets) /\ r.at \in {"update", "prove"}
    BY IdleOK DEF RequestOK, Request, Steps
  <2>3. /\ Become(h, r) /\ Free(h) /\ gen + Busy({"prove", "update"}) < scene.gens
        /\ UNCHANGED <<accountVars, devices, signedWith, sockets, challengeVars, history>>
    BY <2>1 DEF ChangeStart
  <2> QED BY <2>2, <2>3, <1>1 DEF challengeVars
<1>6. CASE \E d, e \in Devices, logout \in BOOLEAN : DropStart(h, d, e, logout)
  <2>1. PICK d \in Devices, e \in Devices, logout \in BOOLEAN : DropStart(h, d, e, logout)
    BY <1>6
  <2> DEFINE r == [Idle EXCEPT !.at = "forgotten", !.dev = d, !.about = e, !.flag = logout]
  <2>2. RequestOK(r, sockets) /\ r.at = "forgotten"
    BY IdleOK DEF RequestOK, Request, Steps
  <2>3. /\ Become(h, r) /\ Free(h) /\ pending' = [pending EXCEPT ![e] = 0]
        /\ UNCHANGED <<accountVars, devices, signedWith, sockets, issued, taken, history>>
    BY <2>1 DEF DropStart
  <2> QED BY <2>2, <2>3, <1>1
<1>7. CASE \E flag \in BOOLEAN : FlagStart(h, flag)
  <2>1. PICK flag \in BOOLEAN : FlagStart(h, flag)
    BY <1>7
  <2> DEFINE r == [Idle EXCEPT !.at = "flag", !.flag = flag, !.was = disabled]
  <2>2. RequestOK(r, sockets) /\ r.at = "flag"
    BY IdleOK DEF DevicesTyped, RequestOK, Request, Steps
  <2>3. /\ Become(h, r) /\ Free(h)
        /\ UNCHANGED <<accountVars, devices, signedWith, sockets, challengeVars, history>>
    BY <2>1 DEF FlagStart
  <2> QED BY <2>2, <2>3, <1>1 DEF challengeVars
<1>8. CASE \E erase \in BOOLEAN : SignOutStart(h, erase)
  <2>1. PICK erase \in BOOLEAN : SignOutStart(h, erase)
    BY <1>8
  <2> DEFINE r == [Idle EXCEPT !.at = "list", !.erase = erase]
  <2>2. RequestOK(r, sockets) /\ r.at = "list"
    BY IdleOK DEF RequestOK, Request, Steps
  <2>3. /\ Become(h, r) /\ Free(h)
        /\ UNCHANGED <<accountVars, devices, signedWith, sockets, challengeVars, history>>
    BY <2>1 DEF SignOutStart
  <2> QED BY <2>2, <2>3, <1>1 DEF challengeVars
<1> QED BY <1>3, <1>4, <1>5, <1>6, <1>7, <1>8 DEF Accept

\* Most requests end with the step that they were accepted for.
LEMMA FinishEffect ==
  ASSUME RequestsOK, DevicesTyped, NEW h \in Requests,
         \/ LoginStore(h) \/ HandshakeAdd(h) \/ Issue(h) \/ ChangeRefuse(h) \/ ChangeMissing(h)
         \/ Erase(h) \/ EraseMissing(h) \/ Abandon(h)
  PROVE  RequestsOK' /\ Others(h) /\ req'[h].at = "idle" /\ req[h].at \notin {"event", "close"}
<1>1. Become(h, Idle) /\ sockets \subseteq sockets' /\ req[h].at \notin {"event", "close"}
  BY DEF LoginStore, HandshakeAdd, Issue, ChangeRefuse, ChangeMissing, Erase, EraseMissing, Abandon, Finish
<1> QED BY <1>1, IdleOK, BecomeOK

\* The proof of a challenge leads to the update, and the update to the event with
\* the devices that it signed out.
LEMMA ProveEffect ==
  ASSUME RequestsOK, NEW h \in Requests, ChangeProve(h)
  PROVE  RequestsOK' /\ Others(h) /\ req[h].at = "prove" /\ req'[h].at = "update"
<1> DEFINE r == [req[h] EXCEPT !.at = "update"]
<1>1. Become(h, r) /\ sockets' = sockets /\ req[h].at = "prove"
  BY DEF ChangeProve
<1>2. RequestOK(req[h], sockets)
  BY DEF RequestsOK
<1>3. RequestOK(r, sockets) /\ r.at = "update"
  BY <1>1, <1>2 DEF RequestOK, Request, Steps
<1> QED BY <1>1, <1>3, BecomeOK

\* The password is stored: the devices signed out with it are the ones to close.
LEMMA StoreEffect ==
  ASSUME RequestsOK, DevicesTyped, NEW h \in Requests, ChangeStore(h)
  PROVE  /\ RequestsOK' /\ Others(h) /\ req[h].at = "update" /\ req'[h].at = "event"
         /\ req'[h].gone = (IF req[h].out THEN devices \ {req[h].dev} ELSE {})
<1> DEFINE gone == IF req[h].out THEN devices \ {req[h].dev} ELSE {}
           r == [req[h] EXCEPT !.at = "event", !.gone = gone, !.there = sockets]
<1>1. Become(h, r) /\ sockets' = sockets /\ req[h].at = "update"
  BY DEF ChangeStore
<1>2. RequestOK(req[h], sockets)
  BY DEF RequestsOK
<1>3. gone \in SUBSET Devices /\ sockets \in SUBSET Devices
  BY DEF DevicesTyped
<1>4. RequestOK(r, sockets) /\ r.at = "event" /\ r.gone = gone
  <2> HIDE DEF gone
  <2> QED BY <1>2, <1>3 DEF RequestOK, Request, Steps
<1> QED BY <1>1, <1>4, BecomeOK

\* Closing begins when every connection has been told.
LEMMA EventEffect ==
  ASSUME RequestsOK, DevicesTyped, NEW h \in Requests, ChangeEvent(h)
  PROVE  /\ RequestsOK' /\ Others(h) /\ req[h].at = "event" /\ req'[h].at \in {"close", "erase", "idle"}
         /\ req[h].gone # {} => req'[h].at = "close" /\ req'[h].gone = req[h].gone
<1> DEFINE q == [req[h] EXCEPT !.there = @ \ sockets]
<1>1. Become(h, Closing(q, req[h].gone)) /\ sockets' = sockets /\ req[h].at = "event"
  BY DEF ChangeEvent
<1>2. req[h] \in Request /\ req[h].there \subseteq sockets /\ req[h].gone \in SUBSET Devices
  BY <1>1 DEF RequestsOK, RequestOK, Request
<1>3. q \in Request /\ q.there = {}
  BY <1>2 DEF Request
<1> HIDE DEF q
<1>4. /\ RequestOK(Closing(q, req[h].gone), sockets)
      /\ Closing(q, req[h].gone).at \in {"close", "erase", "idle"}
      /\ req[h].gone # {} => /\ Closing(q, req[h].gone).at = "close"
                             /\ Closing(q, req[h].gone).gone = req[h].gone
  BY <1>2, <1>3, ClosingOK
<1> QED BY <1>1, <1>4, BecomeOK

\* A socket leaves the hub and the list of those to close together.
LEMMA CloseEffect ==
  ASSUME RequestsOK, DevicesTyped, NEW h \in Requests, Close(h)
  PROVE  \E d \in req[h].gone :
           /\ RequestsOK' /\ Others(h) /\ req[h].at = "close" /\ sockets' = sockets \ {d}
           /\ req'[h].at \in {"close", "erase", "idle"}
           /\ req[h].gone \ {d} # {} => req'[h].at = "close" /\ req'[h].gone = req[h].gone \ {d}
<1>1. PICK d \in req[h].gone :
        /\ sockets' = sockets \ {d}
        /\ req' = Without([req EXCEPT ![h] = Closing(req[h], req[h].gone \ {d})], {d})
  BY DEF Close
<1>2. req[h].at = "close"
  BY DEF Close
<1>3. req \in [Requests -> Request] /\ req[h] \in Request /\ req[h].there = {}
      /\ req[h].gone \ {d} \in SUBSET Devices
  BY <1>2 DEF RequestsOK, RequestOK, Request
<1> DEFINE c == Closing(req[h], req[h].gone \ {d})
           f == [req EXCEPT ![h] = c]
<1>4. /\ RequestOK(c, sockets) /\ c.at \in {"close", "erase", "idle"}
      /\ req[h].gone \ {d} # {} => c.at = "close" /\ c.gone = req[h].gone \ {d}
  BY <1>3, ClosingOK
<1>5. c \in Request
  BY <1>4 DEF RequestOK
<1> HIDE DEF c
<1>6. f \in [Requests -> Request] /\ f[h] = c /\ \A k \in Requests \ {h} : f[k] = req[k]
  BY <1>3, <1>5
<1>7. \A k \in Requests : RequestOK(f[k], sockets)
  BY <1>4, <1>6 DEF RequestsOK
<1>8. req' = Without(f, {d})
  BY <1>1 DEF c
<1> HIDE DEF f
<1>9. RequestsOK' /\ \A k \in Requests : req'[k].at = f[k].at /\ req'[k].gone = f[k].gone
  BY <1>1, <1>6, <1>7, <1>8, WithoutOK
<1> QED BY <1>1, <1>2, <1>4, <1>6, <1>9 DEF Others

\* The other steps go on to the next without a connection being removed.
LEMMA DropEffect ==
  ASSUME RequestsOK, NEW h \in Requests, DropStore(h)
  PROVE  /\ RequestsOK' /\ Others(h) /\ req[h].at = "forgotten" /\ req'[h].at \in {"close", "idle"}
         /\ req[h].about \in devices => req'[h].at = "close" /\ req'[h].gone = {req[h].about}
<1> DEFINE r == [req[h] EXCEPT !.at = "close", !.gone = {req[h].about}]
<1>1. sockets' = sockets /\ req[h].at = "forgotten" /\ (req[h].about \in devices => Become(h, r))
      /\ (Become(h, r) \/ Become(h, Idle))
  BY DEF DropStore, Finish
<1>2. RequestOK(req[h], sockets)
  BY DEF RequestsOK
<1>3. RequestOK(r, sockets) /\ r.at = "close" /\ r.gone = {req[h].about}
  BY <1>1, <1>2 DEF RequestOK, Request, Steps
<1> HIDE DEF r
<1>4. CASE Become(h, r)
  BY <1>1, <1>3, <1>4, BecomeOK
<1>5. CASE Become(h, Idle) /\ req[h].about \notin devices
  BY <1>1, <1>5, IdleOK, BecomeOK
<1> QED BY <1>1, <1>4, <1>5

\* A flag or a sign-out moves its own request on and leaves the others alone.
LEMMA AdminEffect ==
  ASSUME RequestsOK, DevicesTyped, NEW h \in Requests, FlagStore(h) \/ SignOutList(h)
  PROVE  /\ RequestsOK' /\ Others(h) /\ req[h].at \in {"flag", "list"}
         /\ req'[h].at \in {"list", "idle", "purge"}
<1>1. RequestOK(req[h], sockets)
  BY DEF RequestsOK
<1>2. CASE FlagStore(h)
  <2> DEFINE r == [Idle EXCEPT !.at = "list"]
  <2>1. RequestOK(r, sockets) /\ r.at = "list"
    BY IdleOK DEF RequestOK, Request, Steps
  <2>2. sockets' = sockets /\ req[h].at = "flag" /\ (Become(h, r) \/ Become(h, Idle))
    BY <1>2 DEF FlagStore, Finish
  <2> HIDE DEF r
  <2> QED BY <2>1, <2>2, IdleOK, BecomeOK
<1>3. CASE SignOutList(h)
  <2> DEFINE r == [req[h] EXCEPT !.at = "purge", !.gone = devices]
  <2>1. sockets' = sockets /\ req[h].at = "list" /\ Become(h, r)
    BY <1>3 DEF SignOutList
  <2>2. RequestOK(r, sockets) /\ r.at = "purge"
    BY <2>1, <1>1 DEF RequestOK, Request, Steps, DevicesTyped
  <2> HIDE DEF r
  <2> QED BY <2>1, <2>2, BecomeOK
<1> QED BY <1>2, <1>3

\* After the purge the sockets of the devices it removed are still to be closed.
LEMMA PurgeEffect ==
  ASSUME RequestsOK, NEW h \in Requests, SignOutPurge(h)
  PROVE  /\ RequestsOK' /\ Others(h) /\ req[h].at = "purge" /\ req'[h].at \in {"close", "erase", "idle"}
         /\ req[h].gone # {} => req'[h].at = "close" /\ req'[h].gone = req[h].gone
<1>1. Become(h, Closing(req[h], req[h].gone)) /\ sockets' = sockets /\ req[h].at = "purge"
  BY DEF SignOutPurge
<1>2. req[h] \in Request /\ req[h].there = {} /\ req[h].gone \in SUBSET Devices
  BY <1>1 DEF RequestsOK, RequestOK, Request
<1>3. /\ RequestOK(Closing(req[h], req[h].gone), sockets)
      /\ Closing(req[h], req[h].gone).at \in {"close", "erase", "idle"}
      /\ req[h].gone # {} => /\ Closing(req[h], req[h].gone).at = "close"
                             /\ Closing(req[h], req[h].gone).gone = req[h].gone
  BY <1>2, ClosingOK
<1> QED BY <1>1, <1>3, BecomeOK

\* A client that hangs up and a restart.
LEMMA FaultEffect ==
  ASSUME RequestsOK, (\E d \in Devices : Hangup(d) \/ Expire(d)) \/ Restart
  PROVE  /\ RequestsOK' /\ sockets' \subseteq sockets
         /\ \/ \A k \in Requests : req'[k].at = req[k].at /\ req'[k].gone = req[k].gone
            \/ sockets' = {} /\ \A k \in Requests : req'[k].at = "idle"
<1>1. CASE \E d \in Devices : Hangup(d)
  <2>1. PICK d \in Devices : sockets' = sockets \ {d} /\ req' = Without(req, {d})
    BY <1>1 DEF Hangup
  <2> QED BY <2>1, WithoutOK DEF RequestsOK
<1>2. CASE \E d \in Devices : Expire(d)
  BY <1>2 DEF Expire, RequestsOK
<1>3. CASE Restart
  <2>1. sockets' = {} /\ req' = [h \in Requests |-> Idle]
    BY <1>3 DEF Restart
  <2> QED BY <2>1, IdleOK DEF RequestsOK
<1> QED BY <1>1, <1>2, <1>3

\* Every request keeps its type and what its next step rests on.
LEMMA RequestsStep ==
  ASSUME RequestsOK, Bounded, DevicesTyped, [Next]_vars
  PROVE  RequestsOK'
<1>1. CASE UNCHANGED vars
  BY <1>1 DEF vars, RequestsOK
<1>2. ASSUME NEW h \in Requests, Accept(h) \/ Continue(h) \/ Abandon(h)
      PROVE  RequestsOK'
  <2>1. CASE Accept(h)
    BY <2>1, AcceptEffect
  <2>2. CASE Continue(h) \/ Abandon(h)
    BY <2>2, FinishEffect, ProveEffect, StoreEffect, EventEffect, CloseEffect, DropEffect, AdminEffect,
       PurgeEffect DEF Continue
  <2> QED BY <1>2, <2>1, <2>2
<1> QED BY <1>1, <1>2, FaultEffect DEF Next

(***************************************************************************)
(* The bounds.                                                             *)
(***************************************************************************)
\* How the number of requests at some steps moves with one request.
LEMMA BusyStep ==
  ASSUME NEW S, NEW h \in Requests, \A k \in Requests \ {h} : req'[k].at = req[k].at
  PROVE  /\ Busy(S) \in Nat /\ Busy(S)' \in Nat
         /\ req'[h].at \notin S => Busy(S)' <= Busy(S)
         /\ req'[h].at \notin S /\ req[h].at \in S => Busy(S)' + 1 <= Busy(S)
         /\ req'[h].at \in S /\ req[h].at \in S => Busy(S)' = Busy(S)
         /\ Busy(S)' <= Busy(S) + 1
<1> DEFINE A == {k \in Requests : req[k].at \in S}
           B == {k \in Requests : req'[k].at \in S}
<1>1. IsFiniteSet(A) /\ IsFiniteSet(B) /\ Cardinality(A) \in Nat /\ Cardinality(B) \in Nat
  BY SessionsAssumption, FS_Subset, FS_CardinalityType
<1>2. Busy(S) = Cardinality(A) /\ Busy(S)' = Cardinality(B)
  BY DEF Busy
<1>3. B = IF req'[h].at \in S THEN A \cup {h} ELSE A \ {h}
  OBVIOUS
<1>4. h \in A <=> req[h].at \in S
  OBVIOUS
<1> HIDE DEF A, B
<1>5. /\ Cardinality(A \cup {h}) = (IF h \in A THEN Cardinality(A) ELSE Cardinality(A) + 1)
      /\ Cardinality(A \ {h}) = (IF h \in A THEN Cardinality(A) - 1 ELSE Cardinality(A))
  BY <1>1, FS_AddElement, FS_RemoveElement
<1> QED BY <1>1, <1>2, <1>3, <1>4, <1>5

\* A step that moves no request, or leaves none.
LEMMA BusyStays ==
  ASSUME NEW S, "idle" \notin S,
         \/ \A k \in Requests : req'[k].at = req[k].at
         \/ \A k \in Requests : req'[k].at = "idle"
  PROVE  Busy(S) \in Nat /\ Busy(S)' \in Nat /\ Busy(S)' <= Busy(S)
<1> DEFINE A == {k \in Requests : req[k].at \in S}
           B == {k \in Requests : req'[k].at \in S}
<1>1. IsFiniteSet(A) /\ B \in SUBSET A
  BY SessionsAssumption, FS_Subset
<1>2. Busy(S) = Cardinality(A) /\ Busy(S)' = Cardinality(B)
  BY DEF Busy
<1> HIDE DEF A, B
<1> QED BY <1>1, <1>2, FS_Subset, FS_CardinalityType

\* The requests still to store a password or a challenge are within the bounds.
LEMMA BoundedStep ==
  ASSUME RequestsOK, Bounded, DevicesTyped, [Next]_vars
  PROVE  Bounded'
<1> DEFINE P == {"prove", "update"}
           I == {"issue"}
<1>1. scene' = scene /\ scene.gens \in Nat /\ scene.challenges \in Nat
  <2>1. scene' = scene
    BY DEF Next, Accept, Continue, LoginStart, LoginStore, HandshakeStart, HandshakeAdd, Hangup, IssueStart, Issue,
       Expire, ChangeStart, ChangeProve, ChangeRefuse, ChangeStore, ChangeMissing, ChangeEvent, Close, DropStart,
       DropStore, FlagStart, FlagStore, SignOutStart, SignOutList, SignOutPurge, Erase, EraseMissing, Abandon,
       Restart, accountVars, vars
  <2> QED BY <2>1, SessionsAssumption DEF Bounded
<1>2. /\ gen \in Nat /\ issued \in Nat /\ scene \in Scenes
      /\ gen + Busy(P) <= scene.gens /\ issued + Busy(I) <= scene.challenges
  BY DEF Bounded
<1>3. ASSUME gen' = gen, issued' = issued, Busy(P)' \in Nat, Busy(I)' \in Nat,
             gen + Busy(P)' <= scene.gens, issued + Busy(I)' <= scene.challenges
      PROVE  Bounded'
  BY <1>1, <1>2, <1>3 DEF Bounded
<1>4. CASE UNCHANGED vars
  <2>1. gen' = gen /\ issued' = issued /\ \A k \in Requests : req'[k].at = req[k].at
    BY <1>4 DEF vars, accountVars, challengeVars
  <2>2. /\ Busy(P)' \in Nat /\ Busy(P)' <= Busy(P) /\ Busy(P) \in Nat
        /\ Busy(I)' \in Nat /\ Busy(I)' <= Busy(I) /\ Busy(I) \in Nat
    BY <2>1, BusyStays
  <2> QED BY <1>1, <1>2, <1>3, <2>1, <2>2
<1>5. CASE (\E d \in Devices : Hangup(d) \/ Expire(d)) \/ Restart
  <2>1. gen' = gen /\ issued' = issued
    BY <1>5 DEF Hangup, Expire, Restart, accountVars, challengeVars
  <2>2. /\ Busy(P)' \in Nat /\ Busy(P)' <= Busy(P) /\ Busy(P) \in Nat
        /\ Busy(I)' \in Nat /\ Busy(I)' <= Busy(I) /\ Busy(I) \in Nat
    BY <1>5, FaultEffect, BusyStays
  <2> QED BY <1>1, <1>2, <1>3, <2>1, <2>2
<1>6. ASSUME NEW h \in Requests, Accept(h)
      PROVE  Bounded'
  <2>1. /\ gen' = gen /\ issued' = issued
        /\ req'[h].at \in P => gen + Busy(P) < scene.gens
        /\ req'[h].at \in I => issued + Busy(I) < scene.challenges
    BY <1>6, AcceptEffect DEF accountVars
  <2>2. \A k \in Requests \ {h} : req'[k].at = req[k].at
    BY <1>6, AcceptEffect DEF Others
  <2>3. /\ Busy(P) \in Nat /\ Busy(P)' \in Nat /\ Busy(P)' <= Busy(P) + 1
        /\ req'[h].at \notin P => Busy(P)' <= Busy(P)
    BY <2>2, BusyStep
  <2>4. /\ Busy(I) \in Nat /\ Busy(I)' \in Nat /\ Busy(I)' <= Busy(I) + 1
        /\ req'[h].at \notin I => Busy(I)' <= Busy(I)
    BY <2>2, BusyStep
  <2> HIDE DEF P, I
  <2> QED BY <1>1, <1>2, <1>3, <2>1, <2>3, <2>4
<1>7. ASSUME NEW h \in Requests, Issue(h)
      PROVE  Bounded'
  <2>1. gen' = gen /\ issued' = issued + 1 /\ req[h].at = "issue"
    BY <1>7 DEF Issue, accountVars
  <2>2. req'[h].at = "idle" /\ \A k \in Requests \ {h} : req'[k].at = req[k].at
    BY <1>7, FinishEffect DEF Others
  <2>3. Busy(P) \in Nat /\ Busy(P)' \in Nat /\ Busy(P)' <= Busy(P)
    BY <2>2, BusyStep
  <2>4. Busy(I) \in Nat /\ Busy(I)' \in Nat /\ Busy(I)' + 1 <= Busy(I)
    BY <2>1, <2>2, BusyStep
  <2> QED BY <1>1, <1>2, <2>1, <2>3, <2>4 DEF Bounded
<1>8. ASSUME NEW h \in Requests, ChangeStore(h)
      PROVE  Bounded'
  <2>1. gen' = gen + 1 /\ issued' = issued
    BY <1>8 DEF ChangeStore, challengeVars
  <2>2. req[h].at = "update" /\ req'[h].at = "event" /\ \A k \in Requests \ {h} : req'[k].at = req[k].at
    BY <1>8, StoreEffect DEF Others
  <2>3. Busy(P) \in Nat /\ Busy(P)' \in Nat /\ Busy(P)' + 1 <= Busy(P)
    BY <2>2, BusyStep
  <2>4. Busy(I) \in Nat /\ Busy(I)' \in Nat /\ Busy(I)' <= Busy(I)
    BY <2>2, BusyStep
  <2> QED BY <1>1, <1>2, <2>1, <2>3, <2>4 DEF Bounded
<1>9. ASSUME NEW h \in Requests, ChangeProve(h)
      PROVE  Bounded'
  <2>1. gen' = gen /\ issued' = issued
    BY <1>9 DEF ChangeProve, accountVars
  <2>2. req[h].at = "prove" /\ req'[h].at = "update" /\ \A k \in Requests \ {h} : req'[k].at = req[k].at
    BY <1>9, ProveEffect DEF Others
  <2>3. Busy(P) \in Nat /\ Busy(P)' \in Nat /\ Busy(P)' = Busy(P)
    BY <2>2, BusyStep
  <2>4. Busy(I) \in Nat /\ Busy(I)' \in Nat /\ Busy(I)' <= Busy(I)
    BY <2>2, BusyStep
  <2> QED BY <1>1, <1>2, <1>3, <2>1, <2>3, <2>4
<1>10. ASSUME NEW h \in Requests,
              \/ LoginStore(h) \/ HandshakeAdd(h) \/ ChangeRefuse(h) \/ ChangeMissing(h) \/ ChangeEvent(h)
              \/ Close(h) \/ DropStore(h) \/ FlagStore(h) \/ SignOutList(h) \/ SignOutPurge(h)
              \/ Erase(h) \/ EraseMissing(h) \/ Abandon(h)
       PROVE  Bounded'
  <2>1. gen' = gen /\ issued' = issued
    BY <1>10 DEF LoginStore, HandshakeAdd, ChangeRefuse, ChangeMissing, ChangeEvent, Close, DropStore, FlagStore,
       SignOutList, SignOutPurge, Erase, EraseMissing, Abandon, accountVars, challengeVars
  <2>2. /\ req'[h].at \in {"idle", "close", "erase", "list", "purge"}
        /\ \A k \in Requests \ {h} : req'[k].at = req[k].at
    BY <1>10, FinishEffect, EventEffect, CloseEffect, DropEffect, AdminEffect, PurgeEffect DEF Others
  <2>3. Busy(P) \in Nat /\ Busy(P)' \in Nat /\ Busy(P)' <= Busy(P)
    BY <2>2, BusyStep
  <2>4. Busy(I) \in Nat /\ Busy(I)' \in Nat /\ Busy(I)' <= Busy(I)
    BY <2>2, BusyStep
  <2> QED BY <1>1, <1>2, <1>3, <2>1, <2>3, <2>4
<1> QED BY <1>4, <1>5, <1>6, <1>7, <1>8, <1>9, <1>10 DEF Next, Continue

\* The password a scene allows, which a request carries as it read it.
LEMMA GenBounded ==
  ASSUME Bounded
  PROVE  gen \in Gens /\ issued \in 0..MaxChallenge
<1>1. Busy({"prove", "update"}) \in Nat /\ Busy({"issue"}) \in Nat
  BY SessionsAssumption, FS_Subset, FS_CardinalityType DEF Busy
<1> QED BY <1>1, SessionsAssumption DEF Bounded, Gens

(***************************************************************************)
(* Devices, challenges and passwords.                                      *)
(***************************************************************************)
\* What each kind of step writes of the devices and the password.
LEMMA DevicesTypedStep ==
  ASSUME RequestsOK, Bounded, DevicesTyped, [Next]_vars
  PROVE  DevicesTyped'
<1>1. CASE UNCHANGED vars
  BY <1>1 DEF vars, DevicesTyped, accountVars, history
<1>2. CASE (\E d \in Devices : Hangup(d) \/ Expire(d)) \/ Restart
  BY <1>2 DEF Hangup, Expire, Restart, DevicesTyped, accountVars, history
<1>3. ASSUME NEW h \in Requests, Accept(h)
      PROVE  DevicesTyped'
  BY <1>3, AcceptEffect DEF DevicesTyped, accountVars, history
<1>4. ASSUME NEW h \in Requests, LoginStore(h)
      PROVE  DevicesTyped'
  <2>1. req[h].gen \in Gens
    BY DEF RequestsOK, Request
  <2> QED BY <1>4, <2>1 DEF LoginStore, DevicesTyped, accountVars
<1>5. ASSUME NEW h \in Requests, HandshakeAdd(h)
      PROVE  DevicesTyped'
  <2>1. req[h].dev \in Devices
    BY <1>5 DEF HandshakeAdd, RequestsOK, RequestOK
  <2> QED BY <1>5, <2>1 DEF HandshakeAdd, DevicesTyped, accountVars
<1>6. ASSUME NEW h \in Requests, FlagStore(h) \/ Erase(h)
      PROVE  DevicesTyped'
  <2>1. req[h].flag \in BOOLEAN
    BY DEF RequestsOK, Request
  <2> QED BY <1>6, <2>1 DEF FlagStore, Erase, DevicesTyped, history
<1>7. ASSUME NEW h \in Requests,
             \/ Issue(h) \/ ChangeProve(h) \/ ChangeRefuse(h) \/ ChangeMissing(h) \/ ChangeEvent(h) \/ Close(h)
             \/ SignOutList(h) \/ EraseMissing(h) \/ Abandon(h)
      PROVE  DevicesTyped'
  BY <1>7 DEF Issue, ChangeProve, ChangeRefuse, ChangeMissing, ChangeEvent, Close, SignOutList, EraseMissing,
     Abandon, DevicesTyped, accountVars, history
<1>8. ASSUME NEW h \in Requests, ChangeStore(h) \/ DropStore(h) \/ SignOutPurge(h)
      PROVE  DevicesTyped'
  BY <1>8 DEF ChangeStore, DropStore, SignOutPurge, DevicesTyped, accountVars, history
<1> QED BY <1>1, <1>2, <1>3, <1>4, <1>5, <1>6, <1>7, <1>8 DEF Next, Continue

\* Only a change writes the password and the last change.
LEMMA PasswordFrame ==
  ASSUME RequestsOK, Bounded, DevicesTyped, [Next]_vars
  PROVE  (gen' = gen /\ cleared' = cleared) \/ \E h \in Requests : ChangeStore(h)
<1>1. CASE UNCHANGED vars \/ (\E d \in Devices : Hangup(d) \/ Expire(d)) \/ Restart
  BY <1>1 DEF vars, Hangup, Expire, Restart, accountVars, history
<1>2. ASSUME NEW h \in Requests, Accept(h)
      PROVE  gen' = gen /\ cleared' = cleared
  BY <1>2, AcceptEffect DEF accountVars, history
<1>3. ASSUME NEW h \in Requests, Continue(h) \/ Abandon(h), ~ChangeStore(h)
      PROVE  gen' = gen /\ cleared' = cleared
  BY <1>3 DEF Continue, LoginStore, HandshakeAdd, Issue, ChangeProve, ChangeRefuse, ChangeMissing, ChangeEvent,
     Close, DropStore, FlagStore, SignOutList, SignOutPurge, Erase, EraseMissing, Abandon, accountVars, history
<1> QED BY <1>1, <1>2, <1>3 DEF Next

\* The change that signed everybody out is never newer than the password.
LEMMA ClearedStep ==
  ASSUME RequestsOK, Bounded, DevicesTyped, ClearedIsPast, [Next]_vars
  PROVE  ClearedIsPast'
<1>1. CASE gen' = gen /\ cleared' = cleared
  BY <1>1 DEF ClearedIsPast
<1>2. ASSUME NEW h \in Requests, ChangeStore(h)
      PROVE  ClearedIsPast'
  <2>1. gen' \in Gens /\ gen' = gen + 1 /\ gen \in Nat
    <3>1. Bounded'
      BY BoundedStep
    <3>2. gen' \in Nat /\ scene' \in Scenes /\ gen' + Busy({"prove", "update"})' <= scene'.gens
      BY <3>1 DEF Bounded
    <3>3. Busy({"prove", "update"})' \in Nat
      BY SessionsAssumption, FS_Subset, FS_CardinalityType DEF Busy
    <3>4. scene'.gens \in 0..MaxGen
      BY <3>2, SessionsAssumption
    <3> QED BY <1>2, <3>2, <3>3, <3>4, SessionsAssumption DEF ChangeStore, Gens, Bounded
  <2>2. req[h].dev \in Devices \cup {None}
    BY DEF RequestsOK, Request
  <2>3. cleared' = [gen |-> gen + 1, by |-> req[h].dev] \/ cleared' = cleared
    BY <1>2 DEF ChangeStore
  <2> QED BY <2>1, <2>2, <2>3 DEF ClearedIsPast, Gens
<1> QED BY <1>1, <1>2, PasswordFrame

\* A challenge that is taken is no longer pending, and a new one has not been
\* issued before.
LEMMA PendingStep ==
  ASSUME RequestsOK, Bounded, DevicesTyped, PendingUnused, [Next]_vars
  PROVE  PendingUnused'
<1>1. /\ pending \in [Devices -> 0..MaxChallenge] /\ taken \in [Challenges -> Nat]
      /\ issued \in 0..MaxChallenge /\ MaxChallenge \in Nat
  BY GenBounded, SessionsAssumption DEF PendingUnused
<1>2. ASSUME issued' = issued, taken' = taken, pending' \in [Devices -> 0..MaxChallenge],
             \A d \in Devices : pending'[d] \in {0, pending[d]}
      PROVE  PendingUnused'
  BY <1>1, <1>2 DEF PendingUnused
<1>3. CASE UNCHANGED vars
  BY <1>1, <1>2, <1>3 DEF vars, challengeVars
<1>4. CASE (\E d \in Devices : Hangup(d) \/ Expire(d)) \/ Restart
  <2>1. /\ issued' = issued /\ taken' = taken
        /\ \/ pending' = pending
           \/ pending' = [d \in Devices |-> 0]
           \/ \E d \in Devices : pending' = [pending EXCEPT ![d] = 0]
    BY <1>4 DEF Hangup, Expire, Restart, challengeVars
  <2> QED BY <1>1, <1>2, <2>1
<1>5. ASSUME NEW h \in Requests, Accept(h)
      PROVE  PendingUnused'
  <2>1. /\ issued' = issued /\ taken' = taken
        /\ pending' = pending \/ \E d \in Devices : pending' = [pending EXCEPT ![d] = 0]
    BY <1>5, AcceptEffect
  <2> QED BY <1>1, <1>2, <2>1
<1>6. ASSUME NEW h \in Requests, Close(h)
      PROVE  PendingUnused'
  <2>1. /\ issued' = issued /\ taken' = taken
        /\ pending' = pending \/ \E d : pending' = [pending EXCEPT ![d] = 0]
    BY <1>6 DEF Close
  <2> QED BY <1>1, <1>2, <2>1
<1>7. ASSUME NEW h \in Requests, Issue(h)
      PROVE  PendingUnused'
  <2>1. /\ issued' = issued + 1 /\ taken' = taken
        /\ pending' = [pending EXCEPT ![req[h].dev] = issued + 1]
    BY <1>7 DEF Issue
  <2>2. issued + 1 \in Challenges
    <3>1. Bounded'
      BY BoundedStep
    <3>2. issued' \in Nat /\ scene' \in Scenes /\ issued' + Busy({"issue"})' <= scene'.challenges
      BY <3>1 DEF Bounded
    <3>3. Busy({"issue"})' \in Nat
      BY SessionsAssumption, FS_Subset, FS_CardinalityType DEF Busy
    <3>4. scene'.challenges \in 0..MaxChallenge
      BY <3>2, SessionsAssumption
    <3> QED BY <1>1, <2>1, <3>2, <3>3, <3>4 DEF Challenges
  <2>3. pending' \in [Devices -> 0..MaxChallenge]
    <3>1. issued + 1 \in 0..MaxChallenge
      BY <1>1, <2>2 DEF Challenges
    <3> QED BY <1>1, <2>1, <3>1
  <2>4. /\ \A d \in Devices : pending[d] \in Nat /\ pending[d] <= issued
        /\ \A d \in Devices : pending'[d] = IF d = req[h].dev THEN issued + 1 ELSE pending[d]
    BY <1>1, <2>1 DEF PendingUnused
  <2>5. taken[issued + 1] = 0
    BY <1>1, <2>2 DEF PendingUnused
  <2>6. /\ \A d \in Devices : pending'[d] <= issued'
        /\ \A d \in Devices : pending'[d] # 0 => taken'[pending'[d]] = 0
    BY <1>1, <2>1, <2>4, <2>5 DEF PendingUnused
  <2>7. \A d, e \in Devices : pending'[d] # 0 /\ pending'[d] = pending'[e] => d = e
    <3>1. \A d \in Devices : pending[d] # issued + 1
      BY <1>1, <2>4
    <3> QED BY <2>4, <3>1 DEF PendingUnused
  <2>8. \A c \in Challenges : taken'[c] <= 1 /\ (c > issued' => taken'[c] = 0)
    <3>1. \A c \in Challenges : c > issued + 1 => c > issued
      BY <1>1 DEF Challenges
    <3> QED BY <2>1, <3>1 DEF PendingUnused
  <2> QED BY <1>1, <2>1, <2>3, <2>6, <2>7, <2>8 DEF PendingUnused
<1>8. ASSUME NEW h \in Requests, ChangeProve(h)
      PROVE  PendingUnused'
  <2> DEFINE d0 == req[h].dev
             c0 == req[h].proof
  <2>1. /\ issued' = issued /\ pending' = [pending EXCEPT ![d0] = 0]
        /\ taken' = [taken EXCEPT ![c0] = @ + 1] /\ pending[d0] = c0
    BY <1>8 DEF ChangeProve
  <2>2. d0 \in Devices /\ c0 \in 0..MaxChallenge /\ c0 # 0
    BY <1>8 DEF ChangeProve, RequestsOK, RequestOK, Request
  <2>3. c0 \in Challenges
    BY <2>2, <1>1 DEF Challenges
  <2> HIDE DEF d0, c0
  <2>4. taken[c0] = 0 /\ c0 <= issued
    BY <2>1, <2>2 DEF PendingUnused
  <2>5. pending' \in [Devices -> 0..MaxChallenge] /\ taken' \in [Challenges -> Nat]
    <3>1. taken[c0] + 1 \in Nat /\ 0 \in 0..MaxChallenge
      BY <1>1, <2>3
    <3> QED BY <1>1, <2>1, <3>1
  <2>6. /\ pending'[d0] = 0 /\ \A d \in Devices \ {d0} : pending'[d] = pending[d]
        /\ taken'[c0] = 1 /\ \A c \in Challenges \ {c0} : taken'[c] = taken[c]
    BY <1>1, <2>1, <2>2, <2>3, <2>4
  <2>7. \A d \in Devices \ {d0} : pending[d] # c0
    BY <2>1, <2>2 DEF PendingUnused
  <2>8. \A d \in Devices : pending[d] # 0 => pending[d] \in Challenges
    BY <1>1 DEF Challenges
  <2>9. /\ \A d \in Devices : pending'[d] <= issued'
        /\ \A d \in Devices : pending'[d] # 0 => taken'[pending'[d]] = 0
        /\ \A d, e \in Devices : pending'[d] # 0 /\ pending'[d] = pending'[e] => d = e
    BY <1>1, <2>1, <2>2, <2>6, <2>7, <2>8 DEF PendingUnused
  <2>10. \A c \in Challenges : taken'[c] <= 1 /\ (c > issued' => taken'[c] = 0)
    BY <1>1, <2>1, <2>2, <2>4, <2>6 DEF PendingUnused, Challenges
  <2> QED BY <2>5, <2>9, <2>10 DEF PendingUnused
<1>9. ASSUME NEW h \in Requests, Continue(h) \/ Abandon(h), ~Close(h), ~Issue(h), ~ChangeProve(h)
      PROVE  PendingUnused'
  <2>1. issued' = issued /\ taken' = taken /\ pending' = pending
    BY <1>9 DEF Continue, LoginStore, HandshakeAdd, ChangeRefuse, ChangeStore, ChangeMissing, ChangeEvent,
       DropStore, FlagStore, SignOutList, SignOutPurge, Erase, EraseMissing, Abandon, challengeVars
  <2> QED BY <1>1, <1>2, <2>1
<1> QED BY <1>3, <1>4, <1>5, <1>6, <1>7, <1>8, <1>9 DEF Next

(***************************************************************************)
(* Sockets without a session.                                              *)
(***************************************************************************)
\* Another request goes on closing what it was about to close.
LEMMA AboutToCloseStays ==
  ASSUME NEW h \in Requests, Others(h), NEW d, AboutToClose(d),
         (req[h].at \in {"event", "close"} /\ d \in req[h].gone)
            => (req'[h].at \in {"event", "close"} /\ d \in req'[h].gone)
  PROVE  AboutToClose(d)'
BY DEF AboutToClose, Others

\* A socket whose device is gone is about to be closed, or was late or unlisted.
LEMMA SocketsStep ==
  ASSUME RequestsOK, Bounded, DevicesTyped, SocketsAccountedFor, [Next]_vars
  PROVE  SocketsAccountedFor'
<1> SUFFICES ASSUME NEW d \in sockets', d \notin devices'
             PROVE  AboutToClose(d)' \/ d \in late' \cup unlisted'
  BY DEF SocketsAccountedFor
<1>1. d \in sockets /\ d \notin devices => AboutToClose(d) \/ d \in late \cup unlisted
  BY DEF SocketsAccountedFor
<1>2. CASE UNCHANGED vars
  BY <1>1, <1>2 DEF vars, history, AboutToClose
<1>3. CASE (\E e \in Devices : Hangup(e) \/ Expire(e)) \/ Restart
  <2>1. devices' = devices /\ late' = late /\ unlisted' = unlisted
    BY <1>3 DEF Hangup, Expire, Restart, history
  <2>2. d \in sockets /\ \A k \in Requests : req'[k].at = req[k].at /\ req'[k].gone = req[k].gone
    BY <1>3, FaultEffect
  <2> QED BY <1>1, <2>1, <2>2 DEF AboutToClose
<1>4. ASSUME NEW h \in Requests, Accept(h)
      PROVE  AboutToClose(d)' \/ d \in late' \cup unlisted'
  <2>1. Others(h) /\ req[h].at = "idle" /\ UNCHANGED <<devices, sockets, history>>
    BY <1>4, AcceptEffect DEF Free
  <2> QED BY <1>1, <2>1, AboutToCloseStays DEF history
<1>5. ASSUME NEW h \in Requests,
             \/ LoginStore(h) \/ Issue(h) \/ ChangeRefuse(h) \/ ChangeMissing(h)
             \/ EraseMissing(h) \/ Abandon(h)
      PROVE  AboutToClose(d)' \/ d \in late' \cup unlisted'
  <2>1. Others(h) /\ req[h].at \notin {"event", "close"}
    BY <1>5, FinishEffect
  <2>2. devices \subseteq devices' /\ sockets' = sockets /\ late' = late /\ unlisted' = unlisted
    BY <1>5 DEF LoginStore, Issue, ChangeRefuse, ChangeMissing, EraseMissing, Abandon, history
  <2> QED BY <1>1, <2>1, <2>2, AboutToCloseStays
<1>6. ASSUME NEW h \in Requests, HandshakeAdd(h) \/ Erase(h)
      PROVE  AboutToClose(d)' \/ d \in late' \cup unlisted'
  <2>1. Others(h) /\ req[h].at \notin {"event", "close"}
    BY <1>6, FinishEffect
  <2>2. \/ d \in late' \cup unlisted'
        \/ d \in sockets /\ d \notin devices /\ late \subseteq late' /\ unlisted \subseteq unlisted'
    BY <1>6 DEF HandshakeAdd, Erase
  <2> QED BY <1>1, <2>1, <2>2, AboutToCloseStays
<1>7. ASSUME NEW h \in Requests, ChangeProve(h) \/ FlagStore(h) \/ SignOutList(h)
      PROVE  AboutToClose(d)' \/ d \in late' \cup unlisted'
  <2>1. Others(h) /\ req[h].at \notin {"event", "close"}
    BY <1>7, ProveEffect, AdminEffect
  <2>2. UNCHANGED <<devices, sockets, late, unlisted>>
    BY <1>7 DEF ChangeProve, FlagStore, SignOutList, history
  <2> QED BY <1>1, <2>1, <2>2, AboutToCloseStays
<1>8. ASSUME NEW h \in Requests, ChangeStore(h)
      PROVE  AboutToClose(d)' \/ d \in late' \cup unlisted'
  <2>1. /\ Others(h) /\ req[h].at = "update" /\ req'[h].at = "event"
        /\ req'[h].gone = (IF req[h].out THEN devices \ {req[h].dev} ELSE {})
    BY <1>8, StoreEffect
  <2>2. /\ devices' = devices \ (IF req[h].out THEN devices \ {req[h].dev} ELSE {})
        /\ UNCHANGED <<sockets, late, unlisted>>
    BY <1>8 DEF ChangeStore
  <2>3. CASE d \in devices
    BY <2>1, <2>2, <2>3 DEF AboutToClose
  <2>4. CASE d \notin devices
    BY <1>1, <2>1, <2>2, <2>4, AboutToCloseStays
  <2> QED BY <2>3, <2>4
<1>9. ASSUME NEW h \in Requests, ChangeEvent(h)
      PROVE  AboutToClose(d)' \/ d \in late' \cup unlisted'
  <2>1. Others(h) /\ (req[h].gone # {} => req'[h].at = "close" /\ req'[h].gone = req[h].gone)
    BY <1>9, EventEffect
  <2>2. UNCHANGED <<devices, sockets, late, unlisted>>
    BY <1>9 DEF ChangeEvent, history
  <2> QED BY <1>1, <2>1, <2>2, AboutToCloseStays
<1>10. ASSUME NEW h \in Requests, Close(h)
       PROVE  AboutToClose(d)' \/ d \in late' \cup unlisted'
  <2>1. PICK e \in req[h].gone :
          /\ Others(h) /\ sockets' = sockets \ {e}
          /\ req[h].gone \ {e} # {} => req'[h].at = "close" /\ req'[h].gone = req[h].gone \ {e}
    BY <1>10, CloseEffect
  <2>2. UNCHANGED <<devices, late, unlisted>>
    BY <1>10 DEF Close, history
  <2>3. d # e /\ d \in sockets /\ d \notin devices
    BY <2>1, <2>2
  <2> QED BY <1>1, <2>1, <2>2, <2>3, AboutToCloseStays
<1>11. ASSUME NEW h \in Requests, DropStore(h)
       PROVE  AboutToClose(d)' \/ d \in late' \cup unlisted'
  <2>1. /\ Others(h) /\ req[h].at = "forgotten"
        /\ req[h].about \in devices => req'[h].at = "close" /\ req'[h].gone = {req[h].about}
    BY <1>11, DropEffect
  <2>2. devices' = devices \ {req[h].about} /\ UNCHANGED <<sockets, late, unlisted>>
    BY <1>11 DEF DropStore, history
  <2>3. CASE d \in devices
    BY <2>1, <2>2, <2>3 DEF AboutToClose
  <2>4. CASE d \notin devices
    BY <1>1, <2>1, <2>2, <2>4, AboutToCloseStays
  <2> QED BY <2>3, <2>4
<1>12. ASSUME NEW h \in Requests, SignOutPurge(h)
       PROVE  AboutToClose(d)' \/ d \in late' \cup unlisted'
  <2>1. /\ Others(h) /\ req[h].at = "purge"
        /\ req[h].gone # {} => req'[h].at = "close" /\ req'[h].gone = req[h].gone
    BY <1>12, PurgeEffect
  <2>2. unlisted' = unlisted \cup (devices \ req[h].gone) /\ UNCHANGED <<sockets, late>>
    BY <1>12 DEF SignOutPurge
  <2>3. CASE d \in devices
    BY <2>1, <2>2, <2>3 DEF AboutToClose
  <2>4. CASE d \notin devices
    BY <1>1, <2>1, <2>2, <2>4, AboutToCloseStays
  <2> QED BY <2>3, <2>4
<1> QED BY <1>2, <1>3, <1>4, <1>5, <1>6, <1>7, <1>8, <1>9, <1>10, <1>11, <1>12 DEF Next, Continue

(***************************************************************************)
(* Who is still signed in after a change.                                  *)
(***************************************************************************)
\* Only a sign-in adds a device, with the password that was checked for it; it is
\* noted when a change has overtaken it.
LEMMA SignedInFrame ==
  ASSUME RequestsOK, Bounded, DevicesTyped, [Next]_vars
  PROVE  \/ devices' \subseteq devices /\ signedWith' = signedWith /\ behind' = behind
         \/ \E h \in Requests : LoginStore(h)
<1>1. CASE UNCHANGED vars \/ (\E d \in Devices : Hangup(d) \/ Expire(d)) \/ Restart
  BY <1>1 DEF vars, Hangup, Expire, Restart, history
<1>2. ASSUME NEW h \in Requests, Accept(h)
      PROVE  devices' = devices /\ signedWith' = signedWith /\ behind' = behind
  BY <1>2, AcceptEffect DEF history
<1>3. ASSUME NEW h \in Requests, Continue(h) \/ Abandon(h), ~LoginStore(h)
      PROVE  devices' \subseteq devices /\ signedWith' = signedWith /\ behind' = behind
  BY <1>3 DEF Continue, HandshakeAdd, Issue, ChangeProve, ChangeRefuse, ChangeStore, ChangeMissing, ChangeEvent,
     Close, DropStore, FlagStore, SignOutList, SignOutPurge, Erase, EraseMissing, Abandon, history
<1> QED BY <1>1, <1>2, <1>3 DEF Next

\* Nobody signs in with a password older than the last clearing, but those it overtook.
LEMMA OldPasswordsStep ==
  ASSUME RequestsOK, Bounded, DevicesTyped, ClearedIsPast, OldPasswordsAreOut, [Next]_vars
  PROVE  OldPasswordsAreOut'
<1>1. CASE \E h \in Requests : LoginStore(h)
  <2>1. PICK h \in Requests : LoginStore(h)
    BY <1>1
  <2>2. PICK d \in {e \in Devices : signedWith[e] = -1} :
          /\ devices' = devices \cup {d}
          /\ signedWith' = [signedWith EXCEPT ![d] = req[h].gen]
          /\ behind' = IF req[h].gen = gen THEN behind ELSE behind \cup {d}
          /\ cleared' = cleared
    BY <2>1 DEF LoginStore
  <2>3. signedWith'[d] >= cleared.gen \/ d \in behind'
    <3>1. signedWith'[d] = req[h].gen
      BY <2>2 DEF DevicesTyped
    <3>2. gen \in Nat /\ cleared.gen \in Nat /\ cleared.gen <= gen
      BY SessionsAssumption DEF ClearedIsPast, Gens, Bounded
    <3>3. CASE req[h].gen = gen
      BY <3>1, <3>2, <3>3
    <3>4. CASE req[h].gen # gen
      BY <3>4, <2>2
    <3> QED BY <3>3, <3>4
  <2>4. ASSUME NEW e \in devices, e # d
        PROVE  signedWith'[e] >= cleared.gen \/ e = cleared.by \/ e \in behind'
    <3>1. signedWith'[e] = signedWith[e] /\ behind \subseteq behind'
      BY <2>2, <2>4 DEF DevicesTyped
    <3> QED BY <3>1 DEF OldPasswordsAreOut
  <2> QED BY <2>2, <2>3, <2>4 DEF OldPasswordsAreOut
<1>2. CASE \E h \in Requests : ChangeStore(h)
  <2>1. PICK h \in Requests : ChangeStore(h)
    BY <1>2
  <2>2. signedWith' = signedWith /\ behind' = behind
    BY <2>1 DEF ChangeStore
  <2>3. CASE req[h].out
    <3>1. cleared' = [gen |-> gen + 1, by |-> req[h].dev] /\ devices' = devices \ (devices \ {req[h].dev})
      BY <2>1, <2>3 DEF ChangeStore
    <3> QED BY <3>1 DEF OldPasswordsAreOut
  <2>4. CASE ~req[h].out
    <3>1. cleared' = cleared /\ devices' = devices
      BY <2>1, <2>4 DEF ChangeStore
    <3> QED BY <2>2, <3>1 DEF OldPasswordsAreOut
  <2> QED BY <2>3, <2>4
<1>3. CASE devices' \subseteq devices /\ signedWith' = signedWith /\ behind' = behind /\ cleared' = cleared
  BY <1>3 DEF OldPasswordsAreOut
<1> QED BY <1>1, <1>2, <1>3, SignedInFrame, PasswordFrame

(***************************************************************************)
(* The theorems.                                                           *)
(***************************************************************************)
\* The first device is signed in, and nothing is under way.
LEMMA InitIInv == Init => IInv
<1> SUFFICES ASSUME Init PROVE IInv
  OBVIOUS
<1>1. RequestsOK
  BY IdleOK DEF Init, RequestsOK
<1>2. Bounded
  <2> DEFINE A == {h \in Requests : req[h].at \in {"prove", "update"}}
             B == {h \in Requests : req[h].at \in {"issue"}}
  <2>1. A = {} /\ B = {}
    BY IdleOK DEF Init
  <2>2. Busy({"prove", "update"}) = Cardinality(A) /\ Busy({"issue"}) = Cardinality(B)
    BY DEF Busy
  <2>3. Busy({"prove", "update"}) = 0 /\ Busy({"issue"}) = 0
    BY <2>1, <2>2, FS_EmptySet
  <2>4. scene \in Scenes /\ gen = 0 /\ issued = 0
    BY DEF Init
  <2>5. scene.gens \in Nat /\ scene.challenges \in Nat
    BY <2>4, SessionsAssumption
  <2> QED BY <2>3, <2>4, <2>5 DEF Bounded
<1>3. DevicesTyped
  <2>1. 0 \in Gens
    BY SessionsAssumption DEF Gens
  <2>2. signedWith \in [Devices -> Gens \cup {-1}]
    BY <2>1 DEF Init
  <2>3. devices \subseteq Devices
    BY DEF Init
  <2> QED BY <2>2, <2>3 DEF Init, DevicesTyped
<1>4. ClearedIsPast
  BY SessionsAssumption DEF Init, ClearedIsPast, Gens
<1>5. PendingUnused
  BY SessionsAssumption DEF Init, PendingUnused, Challenges
<1>6. SocketsAccountedFor /\ OldPasswordsAreOut
  BY DEF Init, SocketsAccountedFor, OldPasswordsAreOut
<1> QED BY <1>1, <1>2, <1>3, <1>4, <1>5, <1>6 DEF IInv

\* Every part of the invariant is preserved.
LEMMA IInvStep == IInv /\ [Next]_vars => IInv'
BY RequestsStep, BoundedStep, DevicesTypedStep, ClearedStep, PendingStep, SocketsStep, OldPasswordsStep DEF IInv

\* The inductive invariant holds in every state.
THEOREM Invariant == Spec => []IInv
BY InitIInv, IInvStep, PTL DEF Spec

\* The state is well formed, a challenge carries one change at most, however many
\* requests present it, and no connection is cut off by a password change before it
\* was told (challengeStore.take, changePassword).
THEOREM SessionsConsistent == Spec => []Consistent
<1>1. IInv => Consistent
  <2> SUFFICES ASSUME IInv PROVE Consistent
    OBVIOUS
  <2>1. TypeOK
    BY GenBounded DEF IInv, TypeOK, RequestsOK, DevicesTyped, ClearedIsPast, PendingUnused
  <2>2. ChallengesCarryOnce
    BY DEF IInv, PendingUnused, ChallengesCarryOnce
  <2>3. ToldBeforeClosed
    BY DEF IInv, RequestsOK, RequestOK, ToldBeforeClosed
  <2> QED BY <2>1, <2>2, <2>3 DEF Consistent
<1> QED BY <1>1, Invariant, PTL

\* A socket whose device was signed out is about to be closed, unless its handshake
\* overtook the sign-out or its device was missing from a list, whatever way the
\* device was signed out (CloseDevice, DeleteAllDevices).
THEOREM SessionsSocketsAccountedFor == Spec => []SocketsAccountedFor
<1>1. IInv => SocketsAccountedFor
  BY DEF IInv
<1> QED BY <1>1, Invariant, PTL

\* After a password change that signs the others out, nobody is signed in with an
\* older password but the device that made it and sign-ins that it overtook
\* (UpdatePassword).
THEOREM SessionsOldPasswordsAreOut == Spec => []OldPasswordsAreOut
<1>1. IInv => OldPasswordsAreOut
  BY DEF IInv
<1> QED BY <1>1, Invariant, PTL
=============================================================================
