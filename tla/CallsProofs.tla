---------------------------- MODULE CallsProofs ----------------------------
(***************************************************************************)
(* Theorems about Calls, for any devices of the two accounts and any       *)
(* number of calls, whatever signals are lost or overtake each other.      *)
(***************************************************************************)
EXTENDS Calls, FiniteSetTheorems, SequenceTheorems, TLAPS

(***************************************************************************)
(* The inductive invariant.  k stands for the callers so far.              *)
(***************************************************************************)
Live == {"new", "offered", "stable", "up"}

Typed(s) == s \in State /\ (s.id = None) = (s.status = "none")

\* What a device holds is of calls that were started.
Begun(s, k) ==
    /\ s.id <= Len(k)
    /\ \A c \in Ids : s.peer[c] # "none" \/ s.work[c] # "none" => c <= Len(k)
    /\ s.offer # Nobody => s.offer.call <= Len(k)
    /\ \A c \in Ids : s.remote[c] # Nobody => c <= Len(k) /\ s.remote[c].call <= Len(k)

\* A device offers only its own calls and is rung only by those of others; what it
\* has of another device's call came from the caller.  The connection of one's own
\* call is made once.
Roles(d, s, k) ==
    /\ s.status = "ringing-in" => k[s.id] # d
    /\ s.status = "ringing-out" => k[s.id] = d
    /\ s.pc # None => s.peer[s.pc] # "none"
    /\ \A c \in Ids : s.peer[c] = "offered" => k[c] = d
    /\ \A c \in Ids : c <= Len(k) /\ k[c] = d =>
          /\ s.work[c] = "servers" => s.peer[c] = "none"
          /\ s.work[c] \in {"mic", "camera", "describe"} => s.peer[c] \in {"new", "closed"}
    /\ s.offer # Nobody => s.offer.from = k[s.offer.call]
    /\ \A c \in Ids : c <= Len(k) /\ k[c] # d /\ s.remote[c] # Nobody =>
          s.remote[c].from = k[s.remote[c].call]

\* As long as no continuation outlived its call, everything is of the call that runs.
Tidy(s) ==
    /\ \A c \in Ids : s.work[c] # "none" => Runs(s, c)
    /\ \A c \in Ids : s.work[c] \in {"mic", "camera", "describe"} => s.pc = c /\ s.peer[c] = "new"
    /\ \A c \in Ids : s.work[c] = "servers" => s.pc = None
    /\ s.pc # None => Runs(s, s.pc) /\ s.status # "ringing-in"
    /\ \A c \in Ids : s.peer[c] \in Live => s.pc = c
    /\ \A c \in s.mics : Runs(s, c) /\ s.local = c
    /\ s.camera \/ s.screen => Running(s)
    /\ \A c \in s.picking : Runs(s, c)
    /\ s.offer # Nobody => Running(s) /\ s.offer.call = s.id
    /\ \A c \in Ids : s.remote[c].call \in {c, None}
    /\ s.status = "ringing-in" => s.work[s.id] = "none"

\* A call that rings or connects is brought further by something.
Steady(d, s, k) ==
    /\ s.status = "ringing-out" => s.work[s.id] # "none" \/ s.peer[s.id] = "offered"
    /\ s.status = "connecting" => \/ s.work[s.id] # "none" /\ k[s.id] # d
                                  \/ s.pc = s.id /\ s.peer[s.id] = "stable"
    /\ s.status = "active" => s.pc = s.id /\ s.peer[s.id] = "up"

Core(d, s, k) == Typed(s) /\ Begun(s, k) /\ Roles(d, s, k) /\ (Straight(s) => Tidy(s))

DeviceOK(d, s, k) == Core(d, s, k) /\ (Straight(s) => Steady(d, s, k))

\* Offers are the caller's and are for others.
SignalOK(m, k) ==
    /\ m \in [to : on, from : on, call : Ids, t : {"offer", "answer", "reject", "hangup"}]
    /\ m.call <= Len(k)
    /\ m.t = "offer" => m.from = k[m.call] /\ m.to # m.from

SignalsOK == \A m \in net : SignalOK(m, callers)

\* The caller's connection is described once: who is up at the other end is whom the
\* caller was described to, and nobody else.
Paired(k) == \A c \in Ids : c <= Len(k) =>
    \A d \in Devices : d # k[c] /\ dev[d].peer[c] = "up" =>
        /\ \/ dev[k[c]].peer[c] = "closed"
           \/ dev[k[c]].peer[c] \in {"stable", "up"} /\ dev[k[c]].remote[c].from = d
        /\ \A e \in Devices : e # k[c] /\ dev[e].peer[c] = "up" => d = e

\* What a device may do with its connections, apart from two that find each other: the
\* caller's stays closed, or described as it is; no other comes up.
Moves(d, s, t, k) == \A c \in Ids : c <= Len(k) =>
    /\ k[c] = d => /\ s.peer[c] = "closed" => t.peer[c] = "closed"
                   /\ s.peer[c] \in {"stable", "up"} =>
                         t.peer[c] = "closed" \/ (t.peer[c] \in {"stable", "up"} /\ t.remote[c] = s.remote[c])
    /\ k[c] # d => (t.peer[c] = "up" => s.peer[c] = "up")

IInv ==
    /\ capturing \subseteq on /\ on \subseteq Devices
    /\ callers \in Seq(on) /\ Len(callers) <= MaxCalls
    /\ dev \in [Devices -> State] /\ \A d \in Devices : DeviceOK(d, dev[d], callers)
    /\ SignalsOK /\ Paired(callers)

(***************************************************************************)
(* Types.                                                                  *)
(***************************************************************************)
Stations == {"none", "new", "offered", "stable", "up", "closed"}
Stages   == {"none", "servers", "mic", "camera", "describe"}

\* The fields of a device.
LEMMA Fields ==
  ASSUME NEW s \in State
  PROVE  /\ s.id \in Ids \cup {None} /\ s.local \in Ids \cup {None} /\ s.pc \in Ids \cup {None}
         /\ s.status \in {"none", "ringing-in", "ringing-out", "connecting", "active", "ended"}
         /\ s.offer \in Origin /\ s.peer \in [Ids -> Stations] /\ s.remote \in [Ids -> Origin]
         /\ s.work \in [Ids -> Stages] /\ s.mics \subseteq Ids /\ s.picking \subseteq Ids
         /\ s.outlived \subseteq Ids /\ s.asking \subseteq Ids
         /\ s.sharing \in BOOLEAN /\ s.camera \in BOOLEAN /\ s.screen \in BOOLEAN
BY DEF State, Stations, Stages

\* Calls are numbered from 1.
LEMMA IdsOK == None \notin Ids /\ Ids \subseteq Int /\ \A c \in Ids : c >= 1
BY CallsAssumption DEF Ids, None

\* Where an offer or a description is from.
LEMMA OriginOK ==
  /\ Nobody \in Origin /\ Nobody.call = None
  /\ \A o \in Origin : o = Nobody \/ (o.call \in Ids /\ o.from \in Devices)
  /\ \A c \in Ids, d \in Devices : [call |-> c, from |-> d] \in Origin /\ [call |-> c, from |-> d] # Nobody
<1>1. \A c \in Ids, d \in Devices : [call |-> c, from |-> d] # Nobody
  <2> SUFFICES ASSUME NEW c \in Ids, NEW d \in Devices, [call |-> c, from |-> d] = Nobody PROVE FALSE
    OBVIOUS
  <2>1. [call |-> c, from |-> d].call = Nobody.call
    OBVIOUS
  <2> QED BY <2>1, IdsOK DEF Nobody
<1> QED BY <1>1 DEF Origin, Nobody

(***************************************************************************)
(* The ends of a call.                                                     *)
(***************************************************************************)
\* What endCall leaves.
LEMMA EndedFields ==
  ASSUME NEW s, Typed(s)
  PROVE  /\ Ended(s) \in State /\ Ended(s).id = s.id
         /\ Ended(s).status = (IF s.status = "none" THEN "none" ELSE "ended")
         /\ Ended(s).local = None /\ Ended(s).pc = None /\ Ended(s).offer = Nobody
         /\ ~Ended(s).camera /\ ~Ended(s).screen
         /\ \A c \in Ids : Ended(s).peer[c] = IF c = s.pc THEN "closed" ELSE s.peer[c]
         /\ \A c \in Ids : Ended(s).remote[c] = IF c = s.pc THEN Nobody ELSE s.remote[c]
         /\ Ended(s).work = s.work /\ Ended(s).mics = s.mics \ {s.local} /\ Ended(s).picking = s.picking
         /\ Straight(Ended(s)) => Straight(s) /\ (Running(s) => s.work[s.id] = "none" /\ s.id \notin s.picking)
<1> DEFINE o == IF Running(s) /\ (s.work[s.id] # "none" \/ s.id \in s.picking)
                THEN s.outlived \cup {s.id} ELSE s.outlived
           p == [c \in Ids |-> IF c = s.pc THEN "closed" ELSE s.peer[c]]
           r == [c \in Ids |-> IF c = s.pc THEN Nobody ELSE s.remote[c]]
           u == [s EXCEPT !.outlived = o, !.local = None, !.sharing = FALSE, !.pc = None, !.offer = Nobody,
                          !.camera = FALSE, !.screen = FALSE, !.peer = p, !.remote = r]
           e == IF s.status = "none" THEN "none" ELSE "ended"
           i == s.mics \ {s.local}
           t == [u EXCEPT !.status = e, !.mics = i]
<1>1. s \in State /\ (Running(s) => s.id \in Ids)
  BY Fields DEF Typed, Running
<1>2. /\ s.peer \in [Ids -> Stations] /\ s.remote \in [Ids -> Origin] /\ s.outlived \subseteq Ids
      /\ s.mics \subseteq Ids
      /\ s.status \in {"none", "ringing-in", "ringing-out", "connecting", "active", "ended"}
  BY <1>1, Fields
<1>3. /\ p \in [Ids -> {"none", "new", "offered", "stable", "up", "closed"}] /\ r \in [Ids -> Origin]
      /\ o \subseteq Ids
  BY <1>1, <1>2, OriginOK DEF Stations
<1>4. /\ \A c \in Ids : p[c] = IF c = s.pc THEN "closed" ELSE s.peer[c]
      /\ \A c \in Ids : r[c] = IF c = s.pc THEN Nobody ELSE s.remote[c]
      /\ o = {} => s.outlived = {} /\ (Running(s) => s.work[s.id] = "none" /\ s.id \notin s.picking)
  OBVIOUS
<1>5. Released(s) = u
  BY <1>1 DEF Released, State
<1> HIDE DEF o, p, r
<1>6. /\ u \in State /\ u.id = s.id /\ u.status = s.status /\ u.local = None /\ u.pc = None /\ u.offer = Nobody
      /\ ~u.camera /\ ~u.screen /\ u.peer = p /\ u.remote = r /\ u.work = s.work /\ u.mics = s.mics
      /\ u.picking = s.picking /\ u.outlived = o
  BY <1>1, <1>3, OriginOK DEF State
<1> HIDE DEF u
<1>7. Ended(s) = t
  BY <1>5, <1>6 DEF Ended, State
<1>8. e \in {"none", "ringing-in", "ringing-out", "connecting", "active", "ended"} /\ i \subseteq Ids
  BY <1>2
<1> HIDE DEF e, i
<1>9. /\ t \in State /\ t.id = s.id /\ t.status = e /\ t.local = None /\ t.pc = None /\ t.offer = Nobody
      /\ ~t.camera /\ ~t.screen /\ t.peer = p /\ t.remote = r /\ t.work = s.work /\ t.mics = i
      /\ t.picking = s.picking /\ t.outlived = o
  BY <1>6, <1>8 DEF State
<1> HIDE DEF t
<1> QED BY <1>4, <1>7, <1>9 DEF e, i, Straight

\* However it is ended, nothing of the call is left on.
LEMMA EndedOK ==
  ASSUME NEW d, NEW k, NEW s, Core(d, s, k)
  PROVE  DeviceOK(d, Ended(s), k) /\ Moves(d, s, Ended(s), k)
<1> DEFINE t == Ended(s)
<1>1. /\ s \in State /\ Typed(s) /\ Begun(s, k) /\ Roles(d, s, k) /\ (Straight(s) => Tidy(s))
  BY DEF Core, Typed
<1>2. /\ t \in State /\ t.id = s.id /\ t.status = (IF s.status = "none" THEN "none" ELSE "ended")
      /\ t.local = None /\ t.pc = None /\ t.offer = Nobody /\ ~t.camera /\ ~t.screen
      /\ \A c \in Ids : t.peer[c] = IF c = s.pc THEN "closed" ELSE s.peer[c]
      /\ \A c \in Ids : t.remote[c] = IF c = s.pc THEN Nobody ELSE s.remote[c]
      /\ t.work = s.work /\ t.mics = s.mics \ {s.local} /\ t.picking = s.picking
      /\ Straight(t) => Straight(s) /\ (Running(s) => s.work[s.id] = "none" /\ s.id \notin s.picking)
  BY <1>1, EndedFields
<1> HIDE DEF t
<1>3. Typed(t)
  BY <1>1, <1>2 DEF Typed
<1>4. s.pc \in Ids \cup {None}
  BY <1>1, Fields
<1>5. Begun(t, k)
  <2>1. \A c \in Ids : t.peer[c] # "none" \/ t.work[c] # "none" => c <= Len(k)
    BY <1>1, <1>2, IdsOK DEF Begun, Roles
  <2>2. \A c \in Ids : t.remote[c] # Nobody => c <= Len(k) /\ t.remote[c].call <= Len(k)
    BY <1>1, <1>2 DEF Begun
  <2> QED BY <1>1, <1>2, <2>1, <2>2 DEF Begun
<1>6. Roles(d, t, k)
  <2>1. t.status \notin {"ringing-in", "ringing-out"}
    BY <1>2
  <2>2. \A c \in Ids : t.peer[c] = "offered" => k[c] = d
    BY <1>1, <1>2 DEF Roles
  <2>3. \A c \in Ids : c <= Len(k) /\ k[c] = d =>
          /\ t.work[c] = "servers" => t.peer[c] = "none"
          /\ t.work[c] \in {"mic", "camera", "describe"} => t.peer[c] \in {"new", "closed"}
    BY <1>1, <1>2, IdsOK DEF Roles
  <2>4. \A c \in Ids : c <= Len(k) /\ k[c] # d /\ t.remote[c] # Nobody => t.remote[c].from = k[t.remote[c].call]
    BY <1>1, <1>2 DEF Roles
  <2> QED BY <1>2, <2>1, <2>2, <2>3, <2>4 DEF Roles
<1>7. ASSUME Straight(t) PROVE Tidy(t)
  <2>1. Tidy(s) /\ (Running(s) => s.work[s.id] = "none" /\ s.id \notin s.picking)
    BY <1>1, <1>2, <1>7
  <2>2. (\A c \in Ids : t.work[c] = "none") /\ t.picking = {}
    <3>1. s.picking \subseteq Ids
      BY <1>1, Fields
    <3> QED BY <1>2, <2>1, <3>1 DEF Tidy, Runs
  <2>3. t.mics = {}
    BY <1>2, <2>1 DEF Tidy
  <2>4. \A c \in Ids : t.peer[c] \notin Live
    BY <1>2, <2>1 DEF Tidy, Live
  <2>5. \A c \in Ids : t.remote[c].call \in {c, None}
    BY <1>2, <2>1, OriginOK DEF Tidy
  <2>6. t.status # "ringing-in"
    BY <1>2
  <2> QED BY <1>2, <2>2, <2>3, <2>4, <2>5, <2>6 DEF Tidy
<1>8. Steady(d, t, k)
  BY <1>2 DEF Steady
<1>9. Moves(d, s, t, k)
  BY <1>2 DEF Moves
<1> QED BY <1>3, <1>5, <1>6, <1>7, <1>8, <1>9 DEF DeviceOK, Core, t

\* Whatever else changes, the connections and their roles do not when work is dropped.
LEMMA SameOK ==
  ASSUME NEW d, NEW k, NEW s, Typed(s), Begun(s, k), Roles(d, s, k), NEW t \in State,
         t.id = s.id, t.status = s.status, t.pc = s.pc, t.offer = s.offer, t.peer = s.peer, t.remote = s.remote,
         \A c \in Ids : t.work[c] \in {s.work[c], "none"}
  PROVE  Typed(t) /\ Begun(t, k) /\ Roles(d, t, k) /\ Moves(d, s, t, k)
<1>1. Typed(t)
  BY DEF Typed
<1>2. Begun(t, k)
  BY DEF Begun
<1>3. Roles(d, t, k)
  BY DEF Roles
<1>4. Moves(d, s, t, k)
  BY DEF Moves
<1> QED BY <1>1, <1>2, <1>3, <1>4

\* A continuation that stops holds nothing.
LEMMA StoppedOK ==
  ASSUME NEW d, NEW k, NEW s, Core(d, s, k), NEW c \in Ids
  PROVE  /\ Core(d, [s EXCEPT !.work[c] = "none"], k)
         /\ Moves(d, s, [s EXCEPT !.work[c] = "none"], k)
<1> DEFINE w == [s.work EXCEPT ![c] = "none"]
           t == [s EXCEPT !.work[c] = "none"]
<1>1. /\ s \in State /\ Typed(s) /\ Begun(s, k) /\ Roles(d, s, k) /\ (Straight(s) => Tidy(s))
  BY DEF Core, Typed
<1>2. w \in [Ids -> Stages] /\ \A e \in Ids : w[e] = IF e = c THEN "none" ELSE s.work[e]
  BY <1>1, Fields DEF Stages
<1>3. t = [s EXCEPT !.work = w]
  BY <1>1 DEF State
<1> HIDE DEF w
<1>4. /\ t \in State /\ t.id = s.id /\ t.status = s.status /\ t.pc = s.pc /\ t.offer = s.offer
      /\ t.peer = s.peer /\ t.remote = s.remote /\ t.work = w /\ t.mics = s.mics /\ t.local = s.local
      /\ t.camera = s.camera /\ t.screen = s.screen /\ t.picking = s.picking /\ t.outlived = s.outlived
  BY <1>1, <1>2, <1>3 DEF State, Stages
<1> HIDE DEF t
<1>5. \A e \in Ids : t.work[e] \in {s.work[e], "none"}
  BY <1>2, <1>4
<1>6. Typed(t) /\ Begun(t, k) /\ Roles(d, t, k) /\ Moves(d, s, t, k)
  BY <1>1, <1>4, <1>5, SameOK
<1>7. ASSUME Straight(t) PROVE Tidy(t)
  <2>1. Tidy(s)
    BY <1>1, <1>4, <1>7 DEF Straight
  <2>2. s.status = "ringing-in" => s.id \in Ids
    BY <1>1, Fields DEF Typed
  <2>3. \A e \in Ids : t.work[e] = "none" \/ t.work[e] = s.work[e]
    BY <1>5
  <2> QED BY <1>4, <2>1, <2>2, <2>3 DEF Tidy, Runs, Running
<1> QED BY <1>6, <1>7 DEF Core, t

\* An exception ends the call of the moment.
LEMMA FailedOK ==
  ASSUME NEW d, NEW k, NEW s, Core(d, s, k), NEW c \in Ids
  PROVE  /\ DeviceOK(d, Ended([s EXCEPT !.work[c] = "none"]), k)
         /\ Moves(d, s, Ended([s EXCEPT !.work[c] = "none"]), k)
<1> DEFINE u == [s EXCEPT !.work[c] = "none"]
<1>1. Core(d, u, k) /\ Moves(d, s, u, k)
  BY StoppedOK
<1>2. u.peer = s.peer /\ u.remote = s.remote
  BY Fields DEF Core, Typed, State
<1> HIDE DEF u
<1>3. DeviceOK(d, Ended(u), k) /\ Moves(d, u, Ended(u), k)
  BY <1>1, EndedOK
<1>4. Moves(d, s, Ended(u), k)
  BY <1>2, <1>3 DEF Moves
<1> QED BY <1>3, <1>4 DEF u

(***************************************************************************)
(* A call begins or disappears.                                            *)
(***************************************************************************)
\* Without a call nothing is held, unless a continuation outlived its call.
LEMMA IdleOK ==
  ASSUME NEW d, NEW k, NEW s, Core(d, s, k), ~Running(s), Straight(s)
  PROVE  /\ \A c \in Ids : s.work[c] = "none" /\ s.peer[c] \notin Live /\ s.remote[c].call \in {c, None}
         /\ s.pc = None /\ s.mics = {} /\ ~s.camera /\ ~s.screen /\ s.picking = {} /\ s.offer = Nobody
<1>1. Tidy(s) /\ s.mics \subseteq Ids /\ s.picking \subseteq Ids /\ s.camera \in BOOLEAN /\ s.screen \in BOOLEAN
  BY Fields DEF Core, Typed
<1>2. \A c : ~Runs(s, c)
  BY DEF Runs
<1>3. s.pc = None
  BY <1>1, <1>2 DEF Tidy
<1>4. \A c \in Ids : s.work[c] = "none" /\ s.peer[c] \notin Live /\ s.remote[c].call \in {c, None}
  BY <1>1, <1>2, <1>3, IdsOK DEF Tidy
<1>5. s.mics = {} /\ s.picking = {}
  BY <1>1, <1>2 DEF Tidy
<1> QED BY <1>1, <1>3, <1>4, <1>5 DEF Tidy

\* The ended call disappears.
LEMMA ClearedOK ==
  ASSUME NEW d, NEW k, Len(k) \in Nat, NEW s, Core(d, s, k), ~Running(s)
  PROVE  DeviceOK(d, Cleared(s), k) /\ Moves(d, s, Cleared(s), k)
<1> DEFINE t == Cleared(s)
<1>1. /\ s \in State /\ Begun(s, k) /\ Roles(d, s, k)
  BY DEF Core, Typed
<1>2. /\ t \in State /\ t.id = None /\ t.status = "none" /\ t.pc = s.pc /\ t.offer = s.offer
      /\ t.peer = s.peer /\ t.remote = s.remote /\ t.work = s.work /\ t.mics = s.mics
      /\ t.camera = s.camera /\ t.screen = s.screen /\ t.picking = s.picking /\ t.outlived = s.outlived
  BY <1>1 DEF Cleared, State
<1> HIDE DEF t
<1>3. Typed(t) /\ Begun(t, k) /\ Roles(d, t, k) /\ Moves(d, s, t, k)
  <2>1. Typed(t)
    BY <1>2 DEF Typed
  <2>2. Begun(t, k)
    BY <1>1, <1>2 DEF Begun, None
  <2>3. Roles(d, t, k)
    BY <1>1, <1>2 DEF Roles
  <2>4. Moves(d, s, t, k)
    BY <1>2 DEF Moves
  <2> QED BY <2>1, <2>2, <2>3, <2>4
<1>4. ASSUME Straight(t) PROVE Tidy(t) /\ Steady(d, t, k)
  <2>1. Straight(s)
    BY <1>2, <1>4 DEF Straight
  <2>2. /\ \A c \in Ids : t.work[c] = "none" /\ t.peer[c] \notin Live /\ t.remote[c].call \in {c, None}
        /\ t.pc = None /\ t.mics = {} /\ ~t.camera /\ ~t.screen /\ t.picking = {} /\ t.offer = Nobody
    BY <1>2, <2>1, IdleOK
  <2>3. Tidy(t)
    BY <1>2, <2>2 DEF Tidy
  <2>4. Steady(d, t, k)
    BY <1>2 DEF Steady
  <2> QED BY <2>3, <2>4
<1> QED BY <1>3, <1>4 DEF DeviceOK, Core, t

\* It rings for a call of somebody else.
LEMMA RingingOK ==
  ASSUME NEW d, NEW k, Len(k) \in Nat, NEW s, Core(d, s, k), ~Running(s),
         NEW c \in Ids, c <= Len(k), k[c] # d, k[c] \in Devices
  PROVE  LET t == [Fresh(s, c, "ringing-in") EXCEPT !.offer = [call |-> c, from |-> k[c]]]
         IN  DeviceOK(d, t, k) /\ Moves(d, s, t, k)
<1> DEFINE o == [call |-> c, from |-> k[c]]
           f == Fresh(s, c, "ringing-in")
           t == [f EXCEPT !.offer = o]
<1>1. /\ s \in State /\ Begun(s, k) /\ Roles(d, s, k)
  BY DEF Core, Typed
<1>2. o \in Origin /\ o # Nobody /\ o.call = c /\ o.from = k[c]
  BY OriginOK
<1> HIDE DEF o
<1>3. /\ f \in State /\ f.id = c /\ f.status = "ringing-in" /\ f.pc = s.pc
      /\ f.peer = s.peer /\ f.remote = s.remote /\ f.work = s.work /\ f.mics = s.mics
      /\ f.camera = s.camera /\ f.screen = s.screen /\ f.picking = s.picking /\ f.outlived = s.outlived
  BY <1>1 DEF Fresh, Cleared, State
<1> HIDE DEF f
<1>4. /\ t \in State /\ t.id = c /\ t.status = "ringing-in" /\ t.pc = s.pc /\ t.offer = o
      /\ t.peer = s.peer /\ t.remote = s.remote /\ t.work = s.work /\ t.mics = s.mics
      /\ t.camera = s.camera /\ t.screen = s.screen /\ t.picking = s.picking /\ t.outlived = s.outlived
  BY <1>2, <1>3 DEF State
<1> HIDE DEF t
<1>5. Typed(t) /\ Begun(t, k) /\ Roles(d, t, k) /\ Moves(d, s, t, k)
  <2>1. Typed(t)
    BY <1>4, IdsOK DEF Typed
  <2>2. Begun(t, k)
    BY <1>1, <1>2, <1>4 DEF Begun
  <2>3. Roles(d, t, k)
    BY <1>1, <1>2, <1>4 DEF Roles
  <2>4. Moves(d, s, t, k)
    BY <1>4 DEF Moves
  <2> QED BY <2>1, <2>2, <2>3, <2>4
<1>6. ASSUME Straight(t) PROVE Tidy(t) /\ Steady(d, t, k)
  <2>1. Straight(s)
    BY <1>4, <1>6 DEF Straight
  <2>2. /\ \A e \in Ids : t.work[e] = "none" /\ t.peer[e] \notin Live /\ t.remote[e].call \in {e, None}
        /\ t.pc = None /\ t.mics = {} /\ ~t.camera /\ ~t.screen /\ t.picking = {}
    BY <1>4, <2>1, IdleOK
  <2>3. Tidy(t)
    BY <1>2, <1>4, <2>2 DEF Tidy, Running
  <2>4. Steady(d, t, k)
    BY <1>4 DEF Steady
  <2> QED BY <2>3, <2>4
<1> QED BY <1>5, <1>6 DEF DeviceOK, Core, t, f, o

\* A call of one's own begins.
LEMMA CallingOK ==
  ASSUME NEW d, NEW k, Len(k) \in Nat, NEW s, Core(d, s, k), ~Running(s),
         NEW c \in Ids, c <= Len(k), k[c] = d, s.work[c] = "none", s.peer[c] = "none"
  PROVE  LET t == [Fresh(s, c, "ringing-out") EXCEPT !.work[c] = "servers"]
         IN  DeviceOK(d, t, k) /\ Moves(d, s, t, k)
<1> DEFINE w == [s.work EXCEPT ![c] = "servers"]
           f == Fresh(s, c, "ringing-out")
           t == [f EXCEPT !.work[c] = "servers"]
<1>1. /\ s \in State /\ Begun(s, k) /\ Roles(d, s, k)
  BY DEF Core, Typed
<1>2. w \in [Ids -> Stages] /\ \A e \in Ids : w[e] = IF e = c THEN "servers" ELSE s.work[e]
  BY <1>1, Fields DEF Stages
<1>3. /\ f \in State /\ f.id = c /\ f.status = "ringing-out" /\ f.pc = s.pc /\ f.offer = s.offer
      /\ f.peer = s.peer /\ f.remote = s.remote /\ f.work = s.work /\ f.mics = s.mics
      /\ f.camera = s.camera /\ f.screen = s.screen /\ f.picking = s.picking /\ f.outlived = s.outlived
  BY <1>1 DEF Fresh, Cleared, State
<1> HIDE DEF f
<1>4. t = [f EXCEPT !.work = w]
  BY <1>3 DEF State
<1> HIDE DEF w
<1>5. /\ t \in State /\ t.id = c /\ t.status = "ringing-out" /\ t.pc = s.pc /\ t.offer = s.offer
      /\ t.peer = s.peer /\ t.remote = s.remote /\ t.work = w /\ t.mics = s.mics
      /\ t.camera = s.camera /\ t.screen = s.screen /\ t.picking = s.picking /\ t.outlived = s.outlived
  BY <1>2, <1>3, <1>4 DEF State, Stages
<1> HIDE DEF t
<1>6. Typed(t) /\ Begun(t, k) /\ Roles(d, t, k) /\ Moves(d, s, t, k)
  <2>1. Typed(t)
    BY <1>5, IdsOK DEF Typed
  <2>2. Begun(t, k)
    BY <1>1, <1>2, <1>5 DEF Begun
  <2>3. Roles(d, t, k)
    BY <1>1, <1>2, <1>5 DEF Roles
  <2>4. Moves(d, s, t, k)
    BY <1>5 DEF Moves
  <2> QED BY <2>1, <2>2, <2>3, <2>4
<1>7. ASSUME Straight(t) PROVE Tidy(t) /\ Steady(d, t, k)
  <2>1. Straight(s)
    BY <1>5, <1>7 DEF Straight
  <2>2. /\ \A e \in Ids : s.work[e] = "none" /\ t.peer[e] \notin Live /\ t.remote[e].call \in {e, None}
        /\ t.pc = None /\ t.mics = {} /\ ~t.camera /\ ~t.screen /\ t.picking = {} /\ t.offer = Nobody
    BY <1>5, <2>1, IdleOK
  <2>3. \A e \in Ids : t.work[e] = IF e = c THEN "servers" ELSE "none"
    BY <1>2, <1>5, <2>2
  <2>4. Tidy(t)
    BY <1>5, <2>2, <2>3 DEF Tidy, Runs, Running
  <2>5. Steady(d, t, k)
    BY <1>5, <2>3 DEF Steady
  <2> QED BY <2>4, <2>5
<1> QED BY <1>6, <1>7 DEF DeviceOK, Core, t, f

(***************************************************************************)
(* The continuations of a call.                                            *)
(***************************************************************************)
\* The answer button.
LEMMA AcceptedOK ==
  ASSUME NEW d, NEW k, NEW s, DeviceOK(d, s, k), s.status = "ringing-in", s.work[s.id] = "none"
  PROVE  /\ DeviceOK(d, [s EXCEPT !.status = "connecting", !.work[s.id] = "servers"], k)
         /\ Moves(d, s, [s EXCEPT !.status = "connecting", !.work[s.id] = "servers"], k)
<1> DEFINE w == [s.work EXCEPT ![s.id] = "servers"]
           t == [s EXCEPT !.status = "connecting", !.work[s.id] = "servers"]
<1>1. /\ s \in State /\ Typed(s) /\ Begun(s, k) /\ Roles(d, s, k) /\ (Straight(s) => Tidy(s) /\ Steady(d, s, k))
  BY DEF DeviceOK, Core, Typed
<1>2. s.id \in Ids
  BY <1>1, Fields DEF Typed
<1>3. w \in [Ids -> Stages] /\ \A e \in Ids : w[e] = IF e = s.id THEN "servers" ELSE s.work[e]
  BY <1>1, <1>2, Fields DEF Stages
<1>4. t = [s EXCEPT !.status = "connecting", !.work = w]
  BY <1>1 DEF State
<1> HIDE DEF w
<1>5. /\ t \in State /\ t.id = s.id /\ t.status = "connecting" /\ t.pc = s.pc /\ t.offer = s.offer
      /\ t.peer = s.peer /\ t.remote = s.remote /\ t.work = w /\ t.mics = s.mics /\ t.local = s.local
      /\ t.camera = s.camera /\ t.screen = s.screen /\ t.picking = s.picking /\ t.outlived = s.outlived
  BY <1>1, <1>3, <1>4 DEF State, Stages
<1> HIDE DEF t
<1>6. Typed(t) /\ Begun(t, k) /\ Roles(d, t, k) /\ Moves(d, s, t, k)
  <2>1. Typed(t)
    BY <1>1, <1>5 DEF Typed
  <2>2. Begun(t, k)
    BY <1>1, <1>3, <1>5 DEF Begun
  <2>3. Roles(d, t, k)
    BY <1>1, <1>3, <1>5 DEF Roles
  <2>4. Moves(d, s, t, k)
    BY <1>5 DEF Moves
  <2> QED BY <2>1, <2>2, <2>3, <2>4
<1>7. ASSUME Straight(t) PROVE Tidy(t) /\ Steady(d, t, k)
  <2>1. Tidy(s) /\ s.pc = None
    BY <1>1, <1>5, <1>7 DEF Straight, Tidy
  <2>2. \A e \in Ids : t.work[e] = IF e = s.id THEN "servers" ELSE "none"
    BY <1>3, <1>5, <2>1 DEF Tidy, Runs
  <2>3. Tidy(t)
    BY <1>5, <2>1, <2>2 DEF Tidy, Runs, Running
  <2>4. Steady(d, t, k)
    BY <1>1, <1>2, <1>5, <2>2 DEF Steady, Roles
  <2> QED BY <2>3, <2>4
<1> QED BY <1>6, <1>7 DEF DeviceOK, Core, t

\* The connection is made.
LEMMA CreatedOK ==
  ASSUME NEW d, NEW k, NEW s, DeviceOK(d, s, k), NEW c \in Ids, s.work[c] = "servers"
  PROVE  /\ DeviceOK(d, [s EXCEPT !.pc = c, !.peer[c] = "new", !.work[c] = "mic"], k)
         /\ Moves(d, s, [s EXCEPT !.pc = c, !.peer[c] = "new", !.work[c] = "mic"], k)
<1> DEFINE w == [s.work EXCEPT ![c] = "mic"]
           p == [s.peer EXCEPT ![c] = "new"]
           t == [s EXCEPT !.pc = c, !.peer[c] = "new", !.work[c] = "mic"]
<1>1. /\ s \in State /\ Typed(s) /\ Begun(s, k) /\ Roles(d, s, k) /\ (Straight(s) => Tidy(s) /\ Steady(d, s, k))
  BY DEF DeviceOK, Core, Typed
<1>2. /\ w \in [Ids -> Stages] /\ \A e \in Ids : w[e] = IF e = c THEN "mic" ELSE s.work[e]
      /\ p \in [Ids -> Stations] /\ \A e \in Ids : p[e] = IF e = c THEN "new" ELSE s.peer[e]
  BY <1>1, Fields DEF Stages, Stations
<1>3. t = [s EXCEPT !.pc = c, !.peer = p, !.work = w]
  BY <1>1 DEF State
<1> HIDE DEF w, p
<1>4. /\ t \in State /\ t.id = s.id /\ t.status = s.status /\ t.pc = c /\ t.offer = s.offer
      /\ t.peer = p /\ t.remote = s.remote /\ t.work = w /\ t.mics = s.mics /\ t.local = s.local
      /\ t.camera = s.camera /\ t.screen = s.screen /\ t.picking = s.picking /\ t.outlived = s.outlived
  BY <1>1, <1>2, <1>3 DEF State, Stages, Stations
<1> HIDE DEF t
<1>5. Typed(t) /\ Begun(t, k) /\ Roles(d, t, k) /\ Moves(d, s, t, k)
  <2>1. Typed(t)
    BY <1>1, <1>4 DEF Typed
  <2>2. Begun(t, k)
    BY <1>1, <1>2, <1>4 DEF Begun
  <2>3. Roles(d, t, k)
    BY <1>1, <1>2, <1>4 DEF Roles
  <2>4. Moves(d, s, t, k)
    BY <1>1, <1>2, <1>4 DEF Moves, Roles
  <2> QED BY <2>1, <2>2, <2>3, <2>4
<1>6. ASSUME Straight(t) PROVE Tidy(t) /\ Steady(d, t, k)
  <2>1. Tidy(s) /\ Steady(d, s, k) /\ Runs(s, c) /\ s.pc = None /\ s.status # "ringing-in" /\ c # None
    BY <1>1, <1>4, <1>6, IdsOK DEF Straight, Tidy, Runs
  <2>2. \A e \in Ids : t.work[e] = IF e = c THEN "mic" ELSE "none"
    BY <1>2, <1>4, <2>1 DEF Tidy, Runs
  <2>3. \A e \in Ids : t.peer[e] \in Live => e = c
    BY <1>2, <1>4, <2>1, IdsOK DEF Tidy
  <2>4. Tidy(t)
    BY <1>2, <1>4, <2>1, <2>2, <2>3 DEF Tidy, Runs, Running
  <2>5. Steady(d, t, k)
    BY <1>4, <2>1, <2>2 DEF Steady, Runs
  <2> QED BY <2>4, <2>5
<1> QED BY <1>5, <1>6 DEF DeviceOK, Core, t

\* A device that changes only its camera, its screen and what it waits for in them.
LEMMA MinorOK ==
  ASSUME NEW d, NEW k, NEW s, DeviceOK(d, s, k), NEW t \in State,
         t.id = s.id, t.status = s.status, t.pc = s.pc, t.offer = s.offer, t.peer = s.peer, t.remote = s.remote,
         t.work = s.work, t.mics = s.mics, t.local = s.local, t.outlived = s.outlived,
         Straight(s) => (t.camera \/ t.screen => Running(s)),
         Straight(s) => \A c \in t.picking : Runs(s, c)
  PROVE  DeviceOK(d, t, k) /\ Moves(d, s, t, k)
<1>1. /\ s \in State /\ Typed(s) /\ Begun(s, k) /\ Roles(d, s, k) /\ (Straight(s) => Tidy(s) /\ Steady(d, s, k))
  BY DEF DeviceOK, Core, Typed
<1>2. Typed(t) /\ Begun(t, k) /\ Roles(d, t, k) /\ Moves(d, s, t, k)
  BY <1>1, SameOK
<1>3. ASSUME Straight(t) PROVE Tidy(t) /\ Steady(d, t, k)
  <2>1. Straight(s)
    BY <1>3 DEF Straight
  <2>2. Tidy(t)
    BY <1>1, <2>1 DEF Tidy, Runs, Running
  <2>3. Steady(d, t, k)
    BY <1>1, <2>1 DEF Steady
  <2> QED BY <2>2, <2>3
<1> QED BY <1>2, <1>3 DEF DeviceOK, Core

\* The continuation of a call goes on from the microphone or the camera.
LEMMA StageOK ==
  ASSUME NEW d, NEW k, NEW s, DeviceOK(d, s, k), NEW c \in Ids, s.work[c] \in {"mic", "camera"},
         NEW a \in {"camera", "describe"}
  PROVE  DeviceOK(d, [s EXCEPT !.work[c] = a], k) /\ Moves(d, s, [s EXCEPT !.work[c] = a], k)
<1> DEFINE w == [s.work EXCEPT ![c] = a]
           t == [s EXCEPT !.work[c] = a]
<1>1. /\ s \in State /\ Typed(s) /\ Begun(s, k) /\ Roles(d, s, k) /\ (Straight(s) => Tidy(s) /\ Steady(d, s, k))
  BY DEF DeviceOK, Core, Typed
<1>2. w \in [Ids -> Stages] /\ \A e \in Ids : w[e] = IF e = c THEN a ELSE s.work[e]
  BY <1>1, Fields DEF Stages
<1>3. t = [s EXCEPT !.work = w]
  BY <1>1 DEF State
<1> HIDE DEF w
<1>4. /\ t \in State /\ t.id = s.id /\ t.status = s.status /\ t.pc = s.pc /\ t.offer = s.offer
      /\ t.peer = s.peer /\ t.remote = s.remote /\ t.work = w /\ t.mics = s.mics /\ t.local = s.local
      /\ t.camera = s.camera /\ t.screen = s.screen /\ t.picking = s.picking /\ t.outlived = s.outlived
  BY <1>1, <1>2, <1>3 DEF State, Stages
<1> HIDE DEF t
<1>5. Typed(t) /\ Begun(t, k) /\ Roles(d, t, k) /\ Moves(d, s, t, k)
  <2>1. Typed(t)
    BY <1>1, <1>4 DEF Typed
  <2>2. Begun(t, k)
    BY <1>1, <1>2, <1>4 DEF Begun
  <2>3. Roles(d, t, k)
    BY <1>1, <1>2, <1>4 DEF Roles
  <2>4. Moves(d, s, t, k)
    BY <1>4 DEF Moves
  <2> QED BY <2>1, <2>2, <2>3, <2>4
<1>6. ASSUME Straight(t) PROVE Tidy(t) /\ Steady(d, t, k)
  <2>1. Tidy(s) /\ Steady(d, s, k) /\ Runs(s, c) /\ s.pc = c /\ s.peer[c] = "new" /\ s.status # "ringing-in"
    BY <1>1, <1>4, <1>6 DEF Straight, Tidy, Runs
  <2>2. \A e \in Ids : t.work[e] = IF e = c THEN a ELSE "none"
    BY <1>2, <1>4, <2>1 DEF Tidy, Runs
  <2>3. Tidy(t)
    BY <1>4, <2>1, <2>2, IdsOK DEF Tidy, Runs, Running
  <2>4. Steady(d, t, k)
    BY <1>4, <2>1, <2>2 DEF Steady, Runs
  <2> QED BY <2>3, <2>4
<1> QED BY <1>5, <1>6 DEF DeviceOK, Core, t

\* The microphone is there: for the call that runs, unless that is over.
LEMMA MicOK ==
  ASSUME NEW d, NEW k, NEW s, DeviceOK(d, s, k), NEW c \in Ids, s.work[c] = "mic",
         NEW l, l = IF s.status = "none" THEN s.local ELSE c
  PROVE  /\ DeviceOK(d, [s EXCEPT !.mics = @ \cup {c}, !.local = l], k)
         /\ Moves(d, s, [s EXCEPT !.mics = @ \cup {c}, !.local = l], k)
<1> DEFINE t == [s EXCEPT !.mics = @ \cup {c}, !.local = l]
<1>1. /\ s \in State /\ Typed(s) /\ Begun(s, k) /\ Roles(d, s, k) /\ (Straight(s) => Tidy(s) /\ Steady(d, s, k))
  BY DEF DeviceOK, Core, Typed
<1>2. l \in Ids \cup {None} /\ s.mics \cup {c} \subseteq Ids
  BY <1>1, Fields
<1>3. /\ t \in State /\ t.id = s.id /\ t.status = s.status /\ t.pc = s.pc /\ t.offer = s.offer
      /\ t.peer = s.peer /\ t.remote = s.remote /\ t.work = s.work /\ t.mics = s.mics \cup {c} /\ t.local = l
      /\ t.camera = s.camera /\ t.screen = s.screen /\ t.picking = s.picking /\ t.outlived = s.outlived
  BY <1>1, <1>2 DEF State
<1> HIDE DEF t
<1>4. Typed(t) /\ Begun(t, k) /\ Roles(d, t, k) /\ Moves(d, s, t, k)
  BY <1>1, <1>3, SameOK
<1>5. ASSUME Straight(t) PROVE Tidy(t) /\ Steady(d, t, k)
  <2>1. Tidy(s) /\ Steady(d, s, k) /\ Runs(s, c)
    BY <1>1, <1>3, <1>5 DEF Straight, Tidy
  <2>2. l = c
    BY <2>1 DEF Runs, Running
  <2>3. \A e \in t.mics : Runs(t, e) /\ t.local = e
    BY <1>3, <2>1, <2>2 DEF Tidy, Runs, Running
  <2>4. Tidy(t)
    BY <1>3, <2>1, <2>3 DEF Tidy, Runs, Running
  <2>5. Steady(d, t, k)
    BY <1>3, <2>1 DEF Steady
  <2> QED BY <2>4, <2>5
<1> QED BY <1>4, <1>5 DEF DeviceOK, Core, t

\* A closed connection takes no track: its call was over.
LEMMA LateMicOK ==
  ASSUME NEW d, NEW k, NEW s, DeviceOK(d, s, k), NEW c \in Ids, s.work[c] = "mic", s.peer[c] = "closed"
  PROVE  /\ Core(d, [s EXCEPT !.mics = @ \cup {c}], k)
         /\ [s EXCEPT !.mics = @ \cup {c}].peer = s.peer /\ [s EXCEPT !.mics = @ \cup {c}].remote = s.remote
<1> DEFINE t == [s EXCEPT !.mics = @ \cup {c}]
<1>1. /\ s \in State /\ Typed(s) /\ Begun(s, k) /\ Roles(d, s, k) /\ ~Straight(s)
  BY DEF DeviceOK, Core, Typed, Tidy
<1>2. s.mics \cup {c} \subseteq Ids
  BY <1>1, Fields
<1>3. /\ t \in State /\ t.id = s.id /\ t.status = s.status /\ t.pc = s.pc /\ t.offer = s.offer
      /\ t.peer = s.peer /\ t.remote = s.remote /\ t.work = s.work /\ t.outlived = s.outlived
  BY <1>1, <1>2 DEF State
<1> HIDE DEF t
<1>4. Typed(t) /\ Begun(t, k) /\ Roles(d, t, k)
  BY <1>1, <1>3, SameOK
<1> QED BY <1>1, <1>3, <1>4 DEF Core, Straight, t

\* The offer of the caller is out.
LEMMA OfferedOK ==
  ASSUME NEW d, NEW k, NEW s, DeviceOK(d, s, k), NEW c \in Ids, s.work[c] = "describe", k[c] = d,
         s.peer[c] # "closed"
  PROVE  /\ DeviceOK(d, [s EXCEPT !.peer[c] = "offered", !.work[c] = "none"], k)
         /\ Moves(d, s, [s EXCEPT !.peer[c] = "offered", !.work[c] = "none"], k)
<1> DEFINE w == [s.work EXCEPT ![c] = "none"]
           p == [s.peer EXCEPT ![c] = "offered"]
           t == [s EXCEPT !.peer[c] = "offered", !.work[c] = "none"]
<1>1. /\ s \in State /\ Typed(s) /\ Begun(s, k) /\ Roles(d, s, k) /\ (Straight(s) => Tidy(s) /\ Steady(d, s, k))
  BY DEF DeviceOK, Core, Typed
<1>2. /\ w \in [Ids -> Stages] /\ \A e \in Ids : w[e] = IF e = c THEN "none" ELSE s.work[e]
      /\ p \in [Ids -> Stations] /\ \A e \in Ids : p[e] = IF e = c THEN "offered" ELSE s.peer[e]
  BY <1>1, Fields DEF Stages, Stations
<1>3. t = [s EXCEPT !.peer = p, !.work = w]
  BY <1>1 DEF State
<1> HIDE DEF w, p
<1>4. /\ t \in State /\ t.id = s.id /\ t.status = s.status /\ t.pc = s.pc /\ t.offer = s.offer
      /\ t.peer = p /\ t.remote = s.remote /\ t.work = w /\ t.mics = s.mics /\ t.local = s.local
      /\ t.camera = s.camera /\ t.screen = s.screen /\ t.picking = s.picking /\ t.outlived = s.outlived
  BY <1>1, <1>2, <1>3 DEF State, Stages, Stations
<1> HIDE DEF t
<1>5. c <= Len(k) /\ s.peer[c] = "new"
  BY <1>1 DEF Begun, Roles
<1>6. Typed(t) /\ Begun(t, k) /\ Roles(d, t, k) /\ Moves(d, s, t, k)
  <2>1. Typed(t)
    BY <1>1, <1>4 DEF Typed
  <2>2. Begun(t, k)
    BY <1>1, <1>2, <1>4, <1>5 DEF Begun
  <2>3. Roles(d, t, k)
    <3>0. s.pc \in Ids \cup {None}
      BY <1>1, Fields
    <3>1. (t.status = "ringing-in" => k[t.id] # d) /\ (t.status = "ringing-out" => k[t.id] = d)
      BY <1>1, <1>2, <1>4 DEF Roles
    <3>2. t.pc # None => t.peer[t.pc] # "none"
      BY <1>1, <1>2, <1>4, <3>0 DEF Roles
    <3>3. \A e \in Ids : t.peer[e] = "offered" => k[e] = d
      BY <1>1, <1>2, <1>4 DEF Roles
    <3>4. \A e \in Ids : e <= Len(k) /\ k[e] = d =>
            /\ t.work[e] = "servers" => t.peer[e] = "none"
            /\ t.work[e] \in {"mic", "camera", "describe"} => t.peer[e] \in {"new", "closed"}
      BY <1>1, <1>2, <1>4 DEF Roles
    <3>5. t.offer # Nobody => t.offer.from = k[t.offer.call]
      BY <1>1, <1>2, <1>4 DEF Roles
    <3>6. \A e \in Ids : e <= Len(k) /\ k[e] # d /\ t.remote[e] # Nobody => t.remote[e].from = k[t.remote[e].call]
      BY <1>1, <1>2, <1>4 DEF Roles
    <3> QED BY <3>1, <3>2, <3>3, <3>4, <3>5, <3>6 DEF Roles
  <2>4. Moves(d, s, t, k)
    BY <1>2, <1>4, <1>5 DEF Moves
  <2> QED BY <2>1, <2>2, <2>3, <2>4
<1>7. ASSUME Straight(t) PROVE Tidy(t) /\ Steady(d, t, k)
  <2>1. Tidy(s) /\ Steady(d, s, k) /\ Runs(s, c) /\ s.pc = c
    BY <1>1, <1>4, <1>7 DEF Straight, Tidy
  <2>2. \A e \in Ids : t.work[e] = "none"
    BY <1>2, <1>4, <2>1 DEF Tidy, Runs
  <2>3. \A e \in Ids : t.peer[e] \in Live => t.pc = e
    BY <1>2, <1>4, <2>1 DEF Tidy
  <2>4. s.status = "ringing-in" => s.id \in Ids
    BY <2>1 DEF Runs
  <2>5. Tidy(t)
    BY <1>2, <1>4, <2>1, <2>2, <2>3, <2>4 DEF Tidy, Runs, Running
  <2>6. Steady(d, t, k)
    BY <1>2, <1>4, <1>5, <2>1 DEF Steady, Runs
  <2> QED BY <2>5, <2>6
<1> QED BY <1>6, <1>7 DEF DeviceOK, Core, t

\* The answer of the callee is out.
LEMMA AnswerOutOK ==
  ASSUME NEW d, NEW k, NEW s, DeviceOK(d, s, k), NEW c \in Ids, s.work[c] = "describe", k[c] # d,
         s.offer # Nobody
  PROVE  /\ DeviceOK(d, [s EXCEPT !.peer[c] = "stable", !.remote[c] = s.offer, !.work[c] = "none"], k)
         /\ Moves(d, s, [s EXCEPT !.peer[c] = "stable", !.remote[c] = s.offer, !.work[c] = "none"], k)
<1> DEFINE w == [s.work EXCEPT ![c] = "none"]
           p == [s.peer EXCEPT ![c] = "stable"]
           r == [s.remote EXCEPT ![c] = s.offer]
           t == [s EXCEPT !.peer[c] = "stable", !.remote[c] = s.offer, !.work[c] = "none"]
<1>1. /\ s \in State /\ Typed(s) /\ Begun(s, k) /\ Roles(d, s, k) /\ (Straight(s) => Tidy(s) /\ Steady(d, s, k))
  BY DEF DeviceOK, Core, Typed
<1>2. /\ w \in [Ids -> Stages] /\ \A e \in Ids : w[e] = IF e = c THEN "none" ELSE s.work[e]
      /\ p \in [Ids -> Stations] /\ \A e \in Ids : p[e] = IF e = c THEN "stable" ELSE s.peer[e]
      /\ r \in [Ids -> Origin] /\ \A e \in Ids : r[e] = IF e = c THEN s.offer ELSE s.remote[e]
  BY <1>1, Fields DEF Stages, Stations
<1>3. t = [s EXCEPT !.peer = p, !.remote = r, !.work = w]
  BY <1>1 DEF State
<1> HIDE DEF w, p, r
<1>4. /\ t \in State /\ t.id = s.id /\ t.status = s.status /\ t.pc = s.pc /\ t.offer = s.offer
      /\ t.peer = p /\ t.remote = r /\ t.work = w /\ t.mics = s.mics /\ t.local = s.local
      /\ t.camera = s.camera /\ t.screen = s.screen /\ t.picking = s.picking /\ t.outlived = s.outlived
  BY <1>1, <1>2, <1>3 DEF State, Stages, Stations
<1> HIDE DEF t
<1>5. c <= Len(k)
  BY <1>1 DEF Begun
<1>6. Typed(t) /\ Begun(t, k) /\ Roles(d, t, k) /\ Moves(d, s, t, k)
  <2>1. Typed(t)
    BY <1>1, <1>4 DEF Typed
  <2>2. Begun(t, k)
    BY <1>1, <1>2, <1>4, <1>5 DEF Begun
  <2>3. Roles(d, t, k)
    <3>0. s.pc \in Ids \cup {None}
      BY <1>1, Fields
    <3>1. (t.status = "ringing-in" => k[t.id] # d) /\ (t.status = "ringing-out" => k[t.id] = d)
      BY <1>1, <1>2, <1>4 DEF Roles
    <3>2. t.pc # None => t.peer[t.pc] # "none"
      BY <1>1, <1>2, <1>4, <3>0 DEF Roles
    <3>3. \A e \in Ids : t.peer[e] = "offered" => k[e] = d
      BY <1>1, <1>2, <1>4 DEF Roles
    <3>4. \A e \in Ids : e <= Len(k) /\ k[e] = d =>
            /\ t.work[e] = "servers" => t.peer[e] = "none"
            /\ t.work[e] \in {"mic", "camera", "describe"} => t.peer[e] \in {"new", "closed"}
      BY <1>1, <1>2, <1>4 DEF Roles
    <3>5. t.offer # Nobody => t.offer.from = k[t.offer.call]
      BY <1>1, <1>2, <1>4 DEF Roles
    <3>6. \A e \in Ids : e <= Len(k) /\ k[e] # d /\ t.remote[e] # Nobody => t.remote[e].from = k[t.remote[e].call]
      BY <1>1, <1>2, <1>4 DEF Roles
    <3> QED BY <3>1, <3>2, <3>3, <3>4, <3>5, <3>6 DEF Roles
  <2>4. Moves(d, s, t, k)
    BY <1>2, <1>4 DEF Moves
  <2> QED BY <2>1, <2>2, <2>3, <2>4
<1>7. ASSUME Straight(t) PROVE Tidy(t) /\ Steady(d, t, k)
  <2>1. /\ Tidy(s) /\ Steady(d, s, k) /\ Runs(s, c) /\ s.pc = c /\ s.peer[c] = "new"
        /\ s.status # "ringing-in" /\ s.offer.call = c
    BY <1>1, <1>4, <1>7 DEF Straight, Tidy, Runs
  <2>2. \A e \in Ids : t.work[e] = "none"
    BY <1>2, <1>4, <2>1 DEF Tidy, Runs
  <2>3. \A e \in Ids : t.peer[e] \in Live => t.pc = e
    BY <1>2, <1>4, <2>1 DEF Tidy
  <2>4. \A e \in Ids : t.remote[e].call \in {e, None}
    BY <1>2, <1>4, <2>1 DEF Tidy
  <2>5. Tidy(t)
    BY <1>4, <2>1, <2>2, <2>3, <2>4 DEF Tidy, Runs, Running
  <2>6. Steady(d, t, k)
    BY <1>1, <1>2, <1>4, <2>1 DEF Steady, Runs, Roles
  <2> QED BY <2>5, <2>6
<1> QED BY <1>6, <1>7 DEF DeviceOK, Core, t

(***************************************************************************)
(* The connection comes up.                                                *)
(***************************************************************************)
\* The caller takes the first answer.
LEMMA AnsweredOK ==
  ASSUME NEW d, NEW k, NEW s, DeviceOK(d, s, k), NEW m, m.call = s.id, m.from \in Devices,
         s.status = "ringing-out", s.pc # None
  PROVE  DeviceOK(d, Answered(s, m), k) /\ Moves(d, s, Answered(s, m), k)
<1> DEFINE c == s.pc
           o == [call |-> m.call, from |-> m.from]
           p == [s.peer EXCEPT ![c] = "stable"]
           r == [s.remote EXCEPT ![c] = o]
           t == [s EXCEPT !.status = "connecting", !.peer = p, !.remote = r]
<1>1. /\ s \in State /\ Typed(s) /\ Begun(s, k) /\ Roles(d, s, k) /\ (Straight(s) => Tidy(s) /\ Steady(d, s, k))
      /\ Core(d, s, k)
  BY DEF DeviceOK, Core, Typed
<1>2. c \in Ids /\ s.id \in Ids
  BY <1>1, Fields DEF Typed
<1>3. CASE s.peer[c] # "offered"
  BY <1>1, <1>3, EndedOK DEF Answered
<1>4. CASE s.peer[c] = "offered"
  <2>1. o \in Origin /\ o # Nobody /\ o.call = s.id
    BY <1>2, OriginOK
  <2> HIDE DEF o
  <2>2. /\ p \in [Ids -> Stations] /\ \A e \in Ids : p[e] = IF e = c THEN "stable" ELSE s.peer[e]
        /\ r \in [Ids -> Origin] /\ \A e \in Ids : r[e] = IF e = c THEN o ELSE s.remote[e]
    BY <1>1, <1>2, <2>1, Fields DEF Stations
  <2>3. Answered(s, m) = t
    BY <1>1, <1>4 DEF Answered, State, o
  <2>4. c <= Len(k) /\ k[c] = d
    BY <1>1, <1>2, <1>4 DEF Begun, Roles
  <2>5. s.work[c] = "none"
    <3>1. s.work[c] \in Stages
      BY <1>1, <1>2, Fields
    <3> QED BY <1>1, <1>2, <1>4, <2>4, <3>1 DEF Roles, Stages
  <2> HIDE DEF p, r
  <2>6. /\ t \in State /\ t.id = s.id /\ t.status = "connecting" /\ t.pc = c /\ t.offer = s.offer
        /\ t.peer = p /\ t.remote = r /\ t.work = s.work /\ t.mics = s.mics /\ t.local = s.local
        /\ t.camera = s.camera /\ t.screen = s.screen /\ t.picking = s.picking /\ t.outlived = s.outlived
    BY <1>1, <2>2 DEF State, Stations
  <2> HIDE DEF t
  <2>7. Typed(t) /\ Begun(t, k) /\ Roles(d, t, k) /\ Moves(d, s, t, k)
    <3>1. Typed(t)
      BY <1>1, <2>6 DEF Typed
    <3>2. Begun(t, k)
      BY <1>1, <2>1, <2>2, <2>4, <2>6 DEF Begun
    <3>3. Roles(d, t, k)
      BY <1>1, <1>2, <2>2, <2>4, <2>5, <2>6 DEF Roles
    <3>4. Moves(d, s, t, k)
      BY <1>4, <2>2, <2>4, <2>6 DEF Moves
    <3> QED BY <3>1, <3>2, <3>3, <3>4
  <2>8. ASSUME Straight(t) PROVE Tidy(t) /\ Steady(d, t, k)
    <3>1. Tidy(s) /\ Steady(d, s, k) /\ Runs(s, c) /\ s.id = c
      BY <1>1, <2>6, <2>8 DEF Straight, Tidy, Runs
    <3>2. \A e \in Ids : t.work[e] = "none"
      BY <2>5, <2>6, <3>1 DEF Tidy, Runs
    <3>3. \A e \in Ids : t.peer[e] \in Live => t.pc = e
      BY <2>2, <2>6, <3>1 DEF Tidy
    <3>4. \A e \in Ids : t.remote[e].call \in {e, None}
      BY <2>1, <2>2, <2>6, <3>1 DEF Tidy
    <3>5. Tidy(t)
      BY <2>6, <3>1, <3>2, <3>3, <3>4 DEF Tidy, Runs, Running
    <3>6. Steady(d, t, k)
      BY <1>2, <2>2, <2>6, <3>1 DEF Steady
    <3> QED BY <3>5, <3>6
  <2> QED BY <2>3, <2>7, <2>8 DEF DeviceOK, Core
<1> QED BY <1>3, <1>4

Up(s, c, a) == [s EXCEPT !.peer[c] = "up", !.status = a]

\* The two ends have found each other.
LEMMA UpOK ==
  ASSUME NEW d, NEW k, NEW s, DeviceOK(d, s, k), NEW c \in Ids, s.peer[c] = "stable",
         NEW a, a = IF s.pc = c /\ s.status # "none" THEN "active" ELSE s.status
  PROVE  /\ DeviceOK(d, Up(s, c, a), k) /\ Up(s, c, a).remote = s.remote
         /\ \A e \in Ids : Up(s, c, a).peer[e] = IF e = c THEN "up" ELSE s.peer[e]
<1> DEFINE p == [s.peer EXCEPT ![c] = "up"]
           t == [s EXCEPT !.peer[c] = "up", !.status = a]
<1>1. /\ s \in State /\ Typed(s) /\ Begun(s, k) /\ Roles(d, s, k) /\ (Straight(s) => Tidy(s) /\ Steady(d, s, k))
  BY DEF DeviceOK, Core, Typed
<1>2. /\ p \in [Ids -> Stations] /\ \A e \in Ids : p[e] = IF e = c THEN "up" ELSE s.peer[e]
      /\ a \in {"none", "ringing-in", "ringing-out", "connecting", "active", "ended"}
  BY <1>1, Fields DEF Stations
<1>3. t = [s EXCEPT !.peer = p, !.status = a]
  BY <1>1 DEF State
<1> HIDE DEF p
<1>4. /\ t \in State /\ t.id = s.id /\ t.status = a /\ t.pc = s.pc /\ t.offer = s.offer
      /\ t.peer = p /\ t.remote = s.remote /\ t.work = s.work /\ t.mics = s.mics /\ t.local = s.local
      /\ t.camera = s.camera /\ t.screen = s.screen /\ t.picking = s.picking /\ t.outlived = s.outlived
  BY <1>1, <1>2, <1>3 DEF State, Stations
<1> HIDE DEF t
<1>5. Typed(t) /\ Begun(t, k) /\ Roles(d, t, k)
  <2>1. Typed(t)
    BY <1>1, <1>4 DEF Typed
  <2>2. Begun(t, k)
    BY <1>1, <1>2, <1>4 DEF Begun
  <2>3. Roles(d, t, k)
    <3>0. s.pc \in Ids \cup {None}
      BY <1>1, Fields
    <3>1. (t.status = "ringing-in" => k[t.id] # d) /\ (t.status = "ringing-out" => k[t.id] = d)
      BY <1>1, <1>2, <1>4 DEF Roles
    <3>2. t.pc # None => t.peer[t.pc] # "none"
      BY <1>1, <1>2, <1>4, <3>0 DEF Roles
    <3>3. \A e \in Ids : t.peer[e] = "offered" => k[e] = d
      BY <1>1, <1>2, <1>4 DEF Roles
    <3>4. \A e \in Ids : e <= Len(k) /\ k[e] = d =>
            /\ t.work[e] = "servers" => t.peer[e] = "none"
            /\ t.work[e] \in {"mic", "camera", "describe"} => t.peer[e] \in {"new", "closed"}
      BY <1>1, <1>2, <1>4 DEF Roles
    <3>5. t.offer # Nobody => t.offer.from = k[t.offer.call]
      BY <1>1, <1>2, <1>4 DEF Roles
    <3>6. \A e \in Ids : e <= Len(k) /\ k[e] # d /\ t.remote[e] # Nobody => t.remote[e].from = k[t.remote[e].call]
      BY <1>1, <1>2, <1>4 DEF Roles
    <3> QED BY <3>1, <3>2, <3>3, <3>4, <3>5, <3>6 DEF Roles
  <2> QED BY <2>1, <2>2, <2>3
<1>6. ASSUME Straight(t) PROVE Tidy(t) /\ Steady(d, t, k)
  <2>1. Tidy(s) /\ Runs(s, c) /\ s.pc = c /\ s.status # "none" /\ s.id = c /\ s.status # "ringing-in"
    BY <1>1, <1>4, <1>6, IdsOK DEF Straight, Tidy, Live, Runs, Running
  <2>2. a = "active"
    BY <2>1
  <2>3. \A e \in Ids : s.work[e] = "none"
    <3>1. s.work[c] \in Stages
      BY <1>1, Fields
    <3>2. s.work[c] = "none"
      BY <2>1, <3>1, IdsOK DEF Tidy, Stages
    <3> QED BY <2>1, <3>2 DEF Tidy, Runs
  <2>4. \A e \in Ids : t.peer[e] \in Live => t.pc = e
    BY <1>2, <1>4, <2>1 DEF Tidy
  <2>5. Running(s) /\ Running(t)
    BY <1>4, <2>1, <2>2 DEF Runs, Running
  <2>6. Tidy(t)
    BY <1>4, <2>1, <2>2, <2>3, <2>4, <2>5 DEF Tidy, Runs
  <2>7. Steady(d, t, k)
    BY <1>2, <1>4, <2>1, <2>2 DEF Steady
  <2> QED BY <2>6, <2>7
<1> QED BY <1>2, <1>4, <1>5, <1>6 DEF DeviceOK, Core, t, Up

(***************************************************************************)
(* One device acts.                                                        *)
(***************************************************************************)
\* What is so before a step of a device.
LEMMA BeforeStep ==
  ASSUME IInv, NEW d \in on
  PROVE  /\ d \in Devices /\ DeviceOK(d, dev[d], callers) /\ Core(d, dev[d], callers) /\ dev[d] \in State
         /\ Typed(dev[d]) /\ Begun(dev[d], callers) /\ Roles(d, dev[d], callers)
         /\ Len(callers) \in Nat /\ \A c \in Ids : c <= Len(callers) => callers[c] \in on /\ callers[c] \in Devices
         /\ net' \subseteq net /\ UNCHANGED <<setup, callers>> => SignalsOK'
<1>1. d \in Devices /\ callers \in Seq(on) /\ on \subseteq Devices
  BY DEF IInv
<1>2. DeviceOK(d, dev[d], callers) /\ SignalsOK
  BY <1>1 DEF IInv
<1>3. /\ Core(d, dev[d], callers) /\ Typed(dev[d]) /\ Begun(dev[d], callers) /\ Roles(d, dev[d], callers)
      /\ dev[d] \in State
  BY <1>2 DEF DeviceOK, Core, Typed
<1>4. Len(callers) \in Nat /\ \A c \in Ids : c <= Len(callers) => callers[c] \in on
  BY <1>1, IdsOK DEF Ids
<1>5. net' \subseteq net /\ UNCHANGED <<setup, callers>> => SignalsOK'
  BY <1>2 DEF SignalsOK, SignalOK, setup
<1> QED BY <1>1, <1>2, <1>3, <1>4, <1>5

\* A device changes; two connections that find each other are of a call and its caller.
LEMMA SetOK ==
  ASSUME IInv, NEW d \in on, NEW t, Set(d, t), UNCHANGED <<setup, callers>>, SignalsOK',
         DeviceOK(d, t, callers),
         \A c \in Ids : c <= Len(callers) =>
            /\ callers[c] = d =>
                 /\ dev[d].peer[c] = "closed" => t.peer[c] = "closed"
                 /\ dev[d].peer[c] \in {"stable", "up"} =>
                       \/ t.peer[c] = "closed"
                       \/ t.peer[c] \in {"stable", "up"} /\ t.remote[c] = dev[d].remote[c]
            /\ callers[c] # d => (t.peer[c] = "up" => dev[d].peer[c] = "up" \/ Matched(d, c))
  PROVE  IInv'
<1>1. /\ d \in Devices /\ Begun(dev[d], callers) /\ Roles(d, dev[d], callers) /\ Typed(dev[d]) /\ dev[d] \in State
      /\ \A c \in Ids : c <= Len(callers) => callers[c] \in Devices
  BY BeforeStep
<1>2. t \in State
  BY DEF DeviceOK, Core, Typed
<1>3. dev \in [Devices -> State] /\ \A e \in Devices : DeviceOK(e, dev[e], callers)
  BY DEF IInv
<1>4. dev' \in [Devices -> State] /\ \A e \in Devices : dev'[e] = IF e = d THEN t ELSE dev[e]
  BY <1>1, <1>2, <1>3 DEF Set
<1>5. callers' = callers /\ on' = on /\ capturing' = capturing
  BY DEF setup
<1>6. \A e \in Devices : DeviceOK(e, dev'[e], callers')
  BY <1>3, <1>4, <1>5
<1>7. Paired(callers)
  BY DEF IInv
<1>8. Paired(callers)'
  <2> SUFFICES ASSUME NEW c \in Ids, c <= Len(callers)
               PROVE  \A e \in Devices : e # callers[c] /\ dev'[e].peer[c] = "up" =>
                        /\ \/ dev'[callers[c]].peer[c] = "closed"
                           \/ dev'[callers[c]].peer[c] \in {"stable", "up"} /\ dev'[callers[c]].remote[c].from = e
                        /\ \A f \in Devices : f # callers[c] /\ dev'[f].peer[c] = "up" => e = f
    BY <1>5 DEF Paired
  <2> DEFINE K == callers[c]
  <2>1. K \in Devices
    BY <1>1
  <2>2. \A e \in Devices : e # K /\ dev[e].peer[c] = "up" =>
          /\ dev[K].peer[c] = "closed" \/ (dev[K].peer[c] \in {"stable", "up"} /\ dev[K].remote[c].from = e)
          /\ \A f \in Devices : f # K /\ dev[f].peer[c] = "up" => e = f
    BY <1>7 DEF Paired
  <2>3. CASE d = K
    <3>1. /\ dev[K].peer[c] = "closed" => dev'[K].peer[c] = "closed"
          /\ dev[K].peer[c] \in {"stable", "up"} =>
               dev'[K].peer[c] = "closed" \/ (dev'[K].peer[c] \in {"stable", "up"} /\ dev'[K].remote[c] = dev[K].remote[c])
      BY <1>4, <2>1, <2>3
    <3>2. \A e \in Devices : e # K => dev'[e] = dev[e]
      BY <1>4, <2>3
    <3> HIDE DEF K
    <3> QED BY <2>1, <2>2, <3>1, <3>2 DEF K
  <2>4. CASE d # K
    <3>1. dev'[K] = dev[K] /\ \A e \in Devices : e # d => dev'[e] = dev[e]
      BY <1>4, <2>1, <2>4
    <3>2. dev'[d].peer[c] = "up" => dev[d].peer[c] = "up" \/ Matched(d, c)
      BY <1>1, <1>4, <2>4
    <3>3. Matched(d, c) => dev[K].peer[c] \in {"stable", "up"} /\ dev[K].remote[c].from = d
      <4> SUFFICES ASSUME Matched(d, c)
                   PROVE  dev[K].peer[c] \in {"stable", "up"} /\ dev[K].remote[c].from = d
        OBVIOUS
      <4>1. dev[d].remote[c].call = c
        BY DEF Matched
      <4>2. dev[d].remote[c] # Nobody
        BY <4>1, OriginOK, IdsOK
      <4>3. dev[d].remote[c].from = K
        BY <1>1, <2>4, <4>1, <4>2 DEF Roles
      <4> QED BY <4>3 DEF Matched
    <3> HIDE DEF K
    <3>4. \A e \in Devices : e # K /\ dev'[e].peer[c] = "up" =>
            \/ dev[e].peer[c] = "up"
            \/ e = d /\ dev[K].peer[c] \in {"stable", "up"} /\ dev[K].remote[c].from = e
      BY <3>1, <3>2, <3>3
    <3>5. \A e \in Devices : e # K /\ dev'[e].peer[c] = "up" =>
            dev[K].peer[c] = "closed" \/ (dev[K].peer[c] \in {"stable", "up"} /\ dev[K].remote[c].from = e)
      BY <2>2, <3>4
    <3>6. ASSUME NEW e \in Devices, NEW f \in Devices, e # K, f # K, dev'[e].peer[c] = "up", dev'[f].peer[c] = "up"
          PROVE  e = f
      <4>1. CASE dev[e].peer[c] = "up" /\ dev[f].peer[c] = "up"
        BY <2>2, <3>6, <4>1
      <4>2. CASE dev[K].peer[c] \in {"stable", "up"}
        <5>1. dev[K].remote[c].from = e /\ dev[K].remote[c].from = f
          BY <3>5, <3>6, <4>2
        <5> QED BY <5>1
      <4> QED BY <3>4, <3>6, <4>1, <4>2
    <3> QED BY <3>1, <3>5, <3>6 DEF K
  <2> QED BY <2>3, <2>4
<1> QED BY <1>4, <1>5, <1>6, <1>8 DEF IInv

\* The same without connections that find each other.
LEMMA QuietOK ==
  ASSUME IInv, NEW d \in on, NEW t, Set(d, t), UNCHANGED <<setup, callers>>, SignalsOK',
         DeviceOK(d, t, callers), Moves(d, dev[d], t, callers)
  PROVE  IInv'
BY SetOK DEF Moves

\* Nothing changes but the signals.
LEMMA NetOnlyOK ==
  ASSUME IInv, SignalsOK', UNCHANGED <<setup, callers, dev>>
  PROVE  IInv'
BY DEF IInv, Paired, setup

\* What a device sends of a call that was started.
LEMMA SentOK ==
  ASSUME IInv, NEW d \in on, NEW N, N \subseteq net, NEW c \in Ids, c <= Len(callers),
         NEW t \in {"offer", "answer", "reject", "hangup"}, t = "offer" => callers[c] = d
  PROVE  \A m \in Sent(N, d, t, c) : SignalOK(m, callers)
<1>1. \A m \in N : SignalOK(m, callers)
  BY DEF IInv, SignalsOK
<1>2. d \in Account(d)
  BY DEF IInv, Account, Devices
<1>3. \A m \in Copies(d, t, c) : SignalOK(m, callers)
  BY <1>2 DEF Copies, SignalOK
<1> QED BY <1>1, <1>3 DEF Sent

\* The same for the step that sends it.
LEMMA SendOK ==
  ASSUME IInv, UNCHANGED <<setup, callers>>, \A m \in net' : SignalOK(m, callers)
  PROVE  SignalsOK'
BY DEF SignalsOK, SignalOK, setup

(***************************************************************************)
(* A call begins, goes on and ends.                                        *)
(***************************************************************************)
\* What holds of the callers so far holds when there is one more.
LEMMA LaterOK ==
  ASSUME NEW d, NEW k, k \in Seq(Devices), NEW e \in Devices, NEW s, DeviceOK(d, s, k)
  PROVE  DeviceOK(d, s, Append(k, e))
<1> DEFINE l == Append(k, e)
<1>1. Len(l) = Len(k) + 1 /\ Len(k) \in Nat /\ \A c \in 1..Len(k) : l[c] = k[c]
  OBVIOUS
<1>2. \A c \in Ids : c <= Len(k) => l[c] = k[c] /\ c <= Len(l)
  BY <1>1, IdsOK
<1> HIDE DEF l
<1>3. Typed(s) /\ Begun(s, k) /\ Roles(d, s, k) /\ s \in State
  BY DEF DeviceOK, Core, Typed
<1>4. s.id \in Ids \cup {None} /\ s.offer \in Origin /\ s.remote \in [Ids -> Origin] /\ s.work \in [Ids -> Stages]
  BY <1>3, Fields
<1>5. Begun(s, l)
  <2>1. s.id <= Len(l)
    BY <1>1, <1>2, <1>3, <1>4 DEF Begun, None
  <2>2. \A c \in Ids : s.remote[c] # Nobody => s.remote[c].call \in Ids /\ s.remote[c].call <= Len(k)
    BY <1>3, <1>4, OriginOK DEF Begun
  <2>3. s.offer # Nobody => s.offer.call \in Ids /\ s.offer.call <= Len(k)
    BY <1>3, <1>4, OriginOK DEF Begun
  <2> QED BY <1>2, <1>3, <2>1, <2>2, <2>3 DEF Begun
<1>6. Roles(d, s, l)
  <2>1. (s.status \in {"ringing-in", "ringing-out"}) => s.id \in Ids /\ s.id <= Len(k)
    BY <1>3, <1>4 DEF Typed, Begun
  <2>2. \A c \in Ids : s.peer[c] = "offered" => l[c] = d
    BY <1>2, <1>3 DEF Roles, Begun
  <2>3. \A c \in Ids : s.work[c] # "none" => l[c] = k[c] /\ c <= Len(k)
    BY <1>2, <1>3 DEF Begun
  <2>4. \A c \in Ids : s.remote[c] # Nobody => /\ l[c] = k[c] /\ c <= Len(k)
                                             /\ l[s.remote[c].call] = k[s.remote[c].call]
    BY <1>2, <1>3, <1>4, OriginOK DEF Begun
  <2>5. s.offer # Nobody => l[s.offer.call] = k[s.offer.call]
    BY <1>2, <1>3, <1>4, OriginOK DEF Begun
  <2> QED BY <1>2, <1>3, <2>1, <2>2, <2>3, <2>4, <2>5 DEF Roles
<1>7. Straight(s) => Tidy(s) /\ Steady(d, s, l)
  <2>1. s.status = "connecting" => l[s.id] = k[s.id]
    BY <1>2, <1>3, <1>4 DEF Typed, Begun
  <2> QED BY <2>1 DEF DeviceOK, Core, Steady
<1> QED BY <1>3, <1>5, <1>6, <1>7 DEF DeviceOK, Core, l

\* A call is started.
LEMMA StartCallOK == ASSUME IInv, NEW d \in on, StartCall(d) PROVE IInv'
<1> DEFINE s == dev[d]
           k == Append(callers, d)
           c == Len(callers) + 1
           t == [Fresh(s, c, "ringing-out") EXCEPT !.work[c] = "servers"]
<1>1. /\ d \in Devices /\ DeviceOK(d, s, callers) /\ Begun(s, callers) /\ Len(callers) \in Nat /\ s \in State
  BY BeforeStep
<1>2. /\ callers \in Seq(on) /\ callers \in Seq(Devices) /\ on \subseteq Devices /\ MaxCalls \in Nat
  BY CallsAssumption DEF IInv
<1>3. /\ ~Running(s) /\ Len(callers) < MaxCalls /\ callers' = k /\ UNCHANGED <<setup, net>>
      /\ Set(d, [Fresh(s, Len(k), "ringing-out") EXCEPT !.work[Len(k)] = "servers"])
  BY DEF StartCall
<1>4. /\ k \in Seq(on) /\ Len(k) = c /\ k[c] = d /\ \A e \in 1..Len(callers) : k[e] = callers[e]
  BY <1>2
<1>5. c \in Ids /\ Len(k) <= MaxCalls /\ Len(k) \in Nat /\ c <= Len(k)
  BY <1>1, <1>2, <1>3, <1>4 DEF Ids
<1>6. \A e \in Ids : (e <= Len(callers) => k[e] = callers[e] /\ e # c) /\ (e <= Len(k) => e <= Len(callers) \/ e = c)
  BY <1>1, <1>4, IdsOK
<1>7. Set(d, t)
  BY <1>3, <1>4
<1>8. ~(c <= Len(callers))
  BY <1>1
<1> HIDE DEF k, c
<1>9. \A e \in Devices : DeviceOK(e, dev[e], k)
  BY <1>1, <1>2, LaterOK DEF IInv, k
<1>10. s.peer[c] = "none" /\ s.work[c] = "none"
  BY <1>1, <1>5, <1>8 DEF Begun
<1>11. DeviceOK(d, t, k)
  <2>1. Core(d, s, k)
    BY <1>1, <1>9 DEF DeviceOK
  <2> HIDE DEF s
  <2> QED BY <1>3, <1>4, <1>5, <1>10, <2>1, CallingOK
<1>12. t \in State /\ t.peer = s.peer /\ t.remote = s.remote
  <2>1. t \in State
    BY <1>11 DEF DeviceOK, Core, Typed
  <2>2. t.peer = s.peer /\ t.remote = s.remote
    BY <1>1 DEF Fresh, Cleared, State
  <2> QED BY <2>1, <2>2
<1> HIDE DEF t
<1>13. dev' \in [Devices -> State] /\ \A e \in Devices : dev'[e] = IF e = d THEN t ELSE dev[e]
  BY <1>1, <1>7, <1>12 DEF IInv, Set
<1>14. \A e \in Devices : DeviceOK(e, dev'[e], callers')
  BY <1>3, <1>9, <1>11, <1>13
<1>15. SignalsOK'
  <2>1. \A m \in net : m.call \in Ids /\ m.call <= Len(callers) /\ SignalOK(m, callers)
    BY DEF IInv, SignalsOK, SignalOK
  <2>2. \A m \in net : m.call <= Len(k) /\ k[m.call] = callers[m.call]
    BY <1>1, <1>4, <1>6, <2>1, IdsOK DEF c
  <2> QED BY <1>3, <2>1, <2>2 DEF SignalsOK, SignalOK, setup
<1>16. Paired(callers)'
  <2>1. \A e \in Devices : dev'[e].peer = dev[e].peer /\ dev'[e].remote = dev[e].remote
    BY <1>12, <1>13
  <2>2. \A e \in Devices : dev[e].peer[c] # "up"
    BY <1>5, <1>8 DEF IInv, DeviceOK, Core, Begun
  <2>3. \A e \in Ids : e <= Len(callers) => callers[e] \in Devices
    BY BeforeStep
  <2>4. Paired(callers)
    BY DEF IInv
  <2> SUFFICES ASSUME NEW i \in Ids, i <= Len(k), NEW e \in Devices, e # k[i], dev'[e].peer[i] = "up"
               PROVE  /\ \/ dev'[k[i]].peer[i] = "closed"
                         \/ dev'[k[i]].peer[i] \in {"stable", "up"} /\ dev'[k[i]].remote[i].from = e
                      /\ \A f \in Devices : f # k[i] /\ dev'[f].peer[i] = "up" => e = f
    BY <1>3 DEF Paired
  <2>5. i <= Len(callers) /\ k[i] = callers[i]
    BY <1>6, <2>1, <2>2
  <2> QED BY <2>1, <2>3, <2>4, <2>5 DEF Paired
<1> QED BY <1>2, <1>3, <1>4, <1>5, <1>13, <1>14, <1>15, <1>16 DEF IInv, setup

\* A call is answered.
LEMMA AcceptCallOK == ASSUME IInv, NEW d \in on, AcceptCall(d) PROVE IInv'
<1> DEFINE s == dev[d]
           t == [s EXCEPT !.status = "connecting", !.work[s.id] = "servers"]
<1>1. DeviceOK(d, s, callers) /\ SignalsOK'
  BY BeforeStep DEF AcceptCall
<1>2. Set(d, t) /\ UNCHANGED <<setup, callers>> /\ s.work[s.id] = "none" /\ s.status = "ringing-in"
  BY DEF AcceptCall, Offers
<1>3. DeviceOK(d, t, callers) /\ Moves(d, s, t, callers)
  BY <1>1, <1>2, AcceptedOK
<1> HIDE DEF t
<1> QED BY <1>1, <1>2, <1>3, QuietOK

\* Its connection is made.
LEMMA CreatePeerOK == ASSUME IInv, NEW d \in on, NEW c \in Ids, CreatePeer(d, c) PROVE IInv'
<1> DEFINE s == dev[d]
           t == [s EXCEPT !.pc = c, !.peer[c] = "new", !.work[c] = "mic"]
<1>1. DeviceOK(d, s, callers) /\ SignalsOK'
  BY BeforeStep DEF CreatePeer
<1>2. Set(d, t) /\ UNCHANGED <<setup, callers>> /\ s.work[c] = "servers"
  BY DEF CreatePeer
<1>3. DeviceOK(d, t, callers) /\ Moves(d, s, t, callers)
  BY <1>1, <1>2, CreatedOK
<1> HIDE DEF t
<1> QED BY <1>1, <1>2, <1>3, QuietOK

\* Its microphone is granted.
LEMMA GotMicrophoneOK == ASSUME IInv, NEW d \in on, NEW c \in Ids, GotMicrophone(d, c) PROVE IInv'
<1> DEFINE s == dev[d]
           v == [s EXCEPT !.mics = @ \cup {c}]
           l == IF s.status = "none" THEN s.local ELSE c
           u == [s EXCEPT !.mics = @ \cup {c}, !.local = l]
<1>1. /\ DeviceOK(d, s, callers) /\ s \in State /\ UNCHANGED <<setup, callers>> /\ s.work[c] = "mic"
  BY BeforeStep DEF GotMicrophone
<1>2. net' = net
  BY DEF GotMicrophone, Fails
<1>3. SignalsOK'
  BY <1>1, <1>2, BeforeStep
<1>4. v.peer = s.peer /\ v.status = s.status /\ v.local = s.local /\ v.work = s.work
  BY <1>1 DEF State
<1>5. CASE s.peer[c] = "closed"
  <2>1. Set(d, Ended([v EXCEPT !.work[c] = "none"]))
    BY <1>4, <1>5 DEF GotMicrophone, Fails
  <2>2. Core(d, v, callers) /\ v.remote = s.remote
    BY <1>1, <1>5, LateMicOK
  <2> DEFINE t == Ended([v EXCEPT !.work[c] = "none"])
  <2> HIDE DEF v
  <2>3. DeviceOK(d, t, callers) /\ Moves(d, v, t, callers)
    BY <2>2, FailedOK
  <2>4. Moves(d, s, t, callers)
    BY <1>4, <2>2, <2>3 DEF Moves
  <2> HIDE DEF t
  <2> QED BY <1>1, <1>3, <2>1, <2>3, <2>4, QuietOK DEF t
<1>6. CASE s.peer[c] # "closed"
  <2>1. PICK a \in {"describe", "camera"} :
           Set(d, [v EXCEPT !.local = IF v.status = "none" THEN @ ELSE c, !.work[c] = a])
    BY <1>4, <1>6 DEF GotMicrophone
  <2> DEFINE t == [u EXCEPT !.work[c] = a]
  <2>2. [v EXCEPT !.local = IF v.status = "none" THEN @ ELSE c, !.work[c] = a] = t
    BY <1>1, <1>4 DEF State
  <2>3. DeviceOK(d, u, callers) /\ Moves(d, s, u, callers)
    BY <1>1, MicOK
  <2>4. u.work = s.work /\ u.peer = s.peer /\ u.remote = s.remote
    BY <1>1 DEF State
  <2> HIDE DEF u
  <2>5. DeviceOK(d, t, callers) /\ Moves(d, u, t, callers)
    BY <1>1, <2>3, <2>4, StageOK
  <2>6. Moves(d, s, t, callers)
    BY <2>4, <2>5 DEF Moves
  <2> HIDE DEF t
  <2> QED BY <1>1, <1>3, <2>1, <2>2, <2>5, <2>6, QuietOK
<1> QED BY <1>5, <1>6

\* The microphone is refused: the call has failed.
LEMMA NoMicrophoneOK == ASSUME IInv, NEW d \in on, NEW c \in Ids, NoMicrophone(d, c) PROVE IInv'
<1> DEFINE t == Ended([dev[d] EXCEPT !.work[c] = "none"])
<1>1. Core(d, dev[d], callers) /\ SignalsOK'
  BY BeforeStep DEF NoMicrophone, Fails
<1>2. Set(d, t) /\ UNCHANGED <<setup, callers>>
  BY DEF NoMicrophone, Fails
<1>3. DeviceOK(d, t, callers) /\ Moves(d, dev[d], t, callers)
  BY <1>1, FailedOK
<1> HIDE DEF t
<1> QED BY <1>1, <1>2, <1>3, QuietOK

\* A camera that is granted only goes on in a call.
LEMMA WithCameraOK ==
  ASSUME NEW d, NEW k, NEW s, DeviceOK(d, s, k), NEW t \in {s, WithCamera(s)}
  PROVE  /\ DeviceOK(d, t, k) /\ Moves(d, s, t, k) /\ t \in State
         /\ t.id = s.id /\ t.status = s.status /\ t.pc = s.pc /\ t.offer = s.offer /\ t.peer = s.peer
         /\ t.remote = s.remote /\ t.work = s.work /\ t.mics = s.mics /\ t.local = s.local
         /\ t.outlived = s.outlived /\ t.screen = s.screen /\ t.picking = s.picking
         /\ t.camera => s.camera \/ Running(s)
<1>1. s \in State /\ (Straight(s) => Tidy(s))
  BY DEF DeviceOK, Core, Typed
<1>2. /\ t \in State /\ t.id = s.id /\ t.status = s.status /\ t.pc = s.pc /\ t.offer = s.offer
      /\ t.peer = s.peer /\ t.remote = s.remote /\ t.work = s.work /\ t.mics = s.mics /\ t.local = s.local
      /\ t.outlived = s.outlived /\ t.screen = s.screen /\ t.picking = s.picking
      /\ t.camera => s.camera \/ Running(s)
  <2>1. CASE t = s
    BY <1>1, <2>1
  <2>2. CASE t = WithCamera(s)
    BY <1>1, <2>2 DEF WithCamera, State
  <2> QED BY <2>1, <2>2
<1>3. Straight(s) => (t.camera \/ t.screen => Running(s)) /\ \A c \in t.picking : Runs(s, c)
  BY <1>1, <1>2 DEF Tidy
<1> QED BY <1>2, <1>3, MinorOK

\* A video call has its camera, or not.
LEMMA CameraFirstOK == ASSUME IInv, NEW d \in on, NEW c \in Ids, CameraFirst(d, c) PROVE IInv'
<1>1. DeviceOK(d, dev[d], callers) /\ SignalsOK' /\ UNCHANGED <<setup, callers>> /\ dev[d].work[c] = "camera"
  BY BeforeStep DEF CameraFirst
<1>2. PICK s \in {dev[d], WithCamera(dev[d])} : Set(d, [s EXCEPT !.work[c] = "describe"])
  BY DEF CameraFirst
<1>3. DeviceOK(d, s, callers) /\ s.peer = dev[d].peer /\ s.remote = dev[d].remote /\ s.work = dev[d].work
  BY <1>1, WithCameraOK
<1> DEFINE t == [s EXCEPT !.work[c] = "describe"]
<1>4. DeviceOK(d, t, callers) /\ Moves(d, s, t, callers)
  BY <1>1, <1>3, StageOK
<1>5. Moves(d, dev[d], t, callers)
  BY <1>3, <1>4 DEF Moves
<1> HIDE DEF t
<1> QED BY <1>1, <1>2, <1>4, <1>5, QuietOK DEF t

\* The caller describes the call.
LEMMA DescribeOfferOK == ASSUME IInv, NEW d \in on, NEW c \in Ids, DescribeOffer(d, c) PROVE IInv'
<1> DEFINE s == dev[d]
           t == [s EXCEPT !.peer[c] = "offered", !.work[c] = "none"]
           f == Ended([s EXCEPT !.work[c] = "none"])
<1>1. /\ DeviceOK(d, s, callers) /\ Core(d, s, callers) /\ Begun(s, callers) /\ UNCHANGED <<setup, callers>>
      /\ s.work[c] = "describe" /\ callers[c] = d
  BY BeforeStep DEF DescribeOffer
<1>2. CASE s.peer[c] = "closed"
  <2>1. Set(d, f) /\ net' = net
    BY <1>2 DEF DescribeOffer, Fails
  <2>2. SignalsOK'
    BY <1>1, <2>1, BeforeStep
  <2>3. DeviceOK(d, f, callers) /\ Moves(d, s, f, callers)
    BY <1>1, FailedOK
  <2> HIDE DEF f
  <2> QED BY <1>1, <2>1, <2>2, <2>3, QuietOK
<1>3. CASE s.peer[c] # "closed"
  <2>1. Set(d, t) /\ net' = Sent(net, d, "offer", c)
    BY <1>3 DEF DescribeOffer, Send
  <2>2. c <= Len(callers)
    BY <1>1 DEF Begun
  <2>3. SignalsOK'
    BY <1>1, <2>1, <2>2, SentOK, SendOK
  <2>4. DeviceOK(d, t, callers) /\ Moves(d, s, t, callers)
    BY <1>1, <1>3, OfferedOK
  <2> HIDE DEF t
  <2> QED BY <1>1, <2>1, <2>3, <2>4, QuietOK
<1> QED BY <1>2, <1>3

\* The callee describes the call.
LEMMA DescribeAnswerOK == ASSUME IInv, NEW d \in on, NEW c \in Ids, DescribeAnswer(d, c) PROVE IInv'
<1> DEFINE s == dev[d]
           t == [s EXCEPT !.peer[c] = "stable", !.remote[c] = s.offer, !.work[c] = "none"]
           f == Ended([s EXCEPT !.work[c] = "none"])
<1>1. /\ DeviceOK(d, s, callers) /\ Core(d, s, callers) /\ Begun(s, callers) /\ UNCHANGED <<setup, callers>>
      /\ s.work[c] = "describe" /\ callers[c] # d
  BY BeforeStep DEF DescribeAnswer
<1>2. CASE s.peer[c] = "closed" \/ s.offer = Nobody
  <2>1. Set(d, f) /\ net' = net
    BY <1>2 DEF DescribeAnswer, Fails
  <2>2. SignalsOK'
    BY <1>1, <2>1, BeforeStep
  <2>3. DeviceOK(d, f, callers) /\ Moves(d, s, f, callers)
    BY <1>1, FailedOK
  <2> HIDE DEF f
  <2> QED BY <1>1, <2>1, <2>2, <2>3, QuietOK
<1>3. CASE ~(s.peer[c] = "closed" \/ s.offer = Nobody)
  <2>1. Set(d, t) /\ net' = Sent(net, d, "answer", c)
    BY <1>3 DEF DescribeAnswer, Send
  <2>2. c <= Len(callers)
    BY <1>1 DEF Begun
  <2>3. SignalsOK'
    BY <1>1, <2>1, <2>2, SentOK, SendOK
  <2>4. DeviceOK(d, t, callers) /\ Moves(d, s, t, callers)
    BY <1>1, <1>3, AnswerOutOK
  <2> HIDE DEF t
  <2> QED BY <1>1, <2>1, <2>3, <2>4, QuietOK
<1> QED BY <1>2, <1>3

\* Offers and answers are repeated.
LEMMA RepeatOK == ASSUME IInv, NEW d \in on, RepeatOffer(d) \/ RepeatAnswer(d) PROVE IInv'
<1>1. Begun(dev[d], callers) /\ Roles(d, dev[d], callers) /\ Typed(dev[d]) /\ dev[d].id \in Ids \cup {None}
  BY BeforeStep, Fields
<1>2. UNCHANGED <<setup, callers, dev>>
  BY DEF RepeatOffer, RepeatAnswer
<1>3. CASE RepeatOffer(d)
  <2>1. dev[d].id \in Ids /\ dev[d].id <= Len(callers) /\ callers[dev[d].id] = d
    BY <1>1, <1>3 DEF RepeatOffer, Typed, Begun, Roles
  <2>2. net' = Sent(net, d, "offer", dev[d].id)
    BY <1>3 DEF RepeatOffer, Send
  <2>3. SignalsOK'
    BY <1>2, <2>1, <2>2, SentOK, SendOK
  <2> QED BY <1>2, <2>3, NetOnlyOK
<1>4. CASE RepeatAnswer(d)
  <2>1. dev[d].id \in Ids /\ dev[d].id <= Len(callers)
    BY <1>1, <1>4 DEF RepeatAnswer, Typed, Begun
  <2>2. net' = Sent(net, d, "answer", dev[d].id)
    BY <1>4 DEF RepeatAnswer, Send
  <2>3. SignalsOK'
    BY <1>2, <2>1, <2>2, SentOK, SendOK
  <2> QED BY <1>2, <2>3, NetOnlyOK
<1> QED BY <1>3, <1>4

\* A call ends without a signal of the other side.
LEMMA EndsOK ==
  ASSUME IInv, NEW d \in on, Set(d, Ended(dev[d])), UNCHANGED <<setup, callers>>, SignalsOK'
  PROVE  IInv'
<1>1. Core(d, dev[d], callers)
  BY BeforeStep
<1>2. DeviceOK(d, Ended(dev[d]), callers) /\ Moves(d, dev[d], Ended(dev[d]), callers)
  BY <1>1, EndedOK
<1> QED BY <1>2, QuietOK

\* Ringing ends, a call is declined or hung up.
LEMMA HungUpOK == ASSUME IInv, NEW d \in on, RingTimeout(d) \/ RejectCall(d) \/ Hangup(d) PROVE IInv'
<1>1. Begun(dev[d], callers) /\ Typed(dev[d]) /\ dev[d].id \in Ids \cup {None}
  BY BeforeStep, Fields
<1>2. Set(d, Ended(dev[d])) /\ UNCHANGED <<setup, callers>>
  BY DEF RingTimeout, RejectCall, Hangup
<1>3. dev[d].status # "none"
  BY DEF RingTimeout, RejectCall, Hangup, Offers
<1>4. dev[d].id \in Ids /\ dev[d].id <= Len(callers)
  BY <1>1, <1>3 DEF Typed, Begun
<1>5. \/ net' = net \/ net' = Sent(net, d, "hangup", dev[d].id) \/ net' = Sent(net, d, "reject", dev[d].id)
  BY DEF RingTimeout, RejectCall, Hangup, Send
<1>6. SignalsOK'
  <2>1. CASE net' = net
    BY <1>2, <2>1, BeforeStep
  <2>2. CASE net' = Sent(net, d, "hangup", dev[d].id) \/ net' = Sent(net, d, "reject", dev[d].id)
    BY <1>2, <1>4, <2>2, SentOK, SendOK
  <2> QED BY <1>5, <2>1, <2>2
<1> QED BY <1>2, <1>6, EndsOK

\* The ended call disappears.
LEMMA DismissOK == ASSUME IInv, NEW d \in on, Dismiss(d) PROVE IInv'
<1>1. Core(d, dev[d], callers) /\ SignalsOK' /\ Len(callers) \in Nat
  BY BeforeStep DEF Dismiss
<1>2. Set(d, Cleared(dev[d])) /\ UNCHANGED <<setup, callers>> /\ ~Running(dev[d])
  BY DEF Dismiss, Offers, Running
<1>3. DeviceOK(d, Cleared(dev[d]), callers) /\ Moves(d, dev[d], Cleared(dev[d]), callers)
  BY <1>1, <1>2, ClearedOK
<1> QED BY <1>1, <1>2, <1>3, QuietOK

(***************************************************************************)
(* Signals.                                                                *)
(***************************************************************************)
\* What arrives is of a call that was started.
LEMMA SignalIn ==
  ASSUME IInv, NEW m \in net
  PROVE  /\ SignalOK(m, callers) /\ m.call \in Ids /\ m.call <= Len(callers)
         /\ m.from \in on /\ m.from \in Devices /\ m.to \in on
BY DEF IInv, SignalsOK, SignalOK

\* Another device of the account took or dismissed the call.
LEMMA HandleElsewhereOK ==
  ASSUME IInv, NEW d \in on, NEW m \in net, HandleElsewhere(d, m) PROVE IInv'
<1>1. UNCHANGED <<setup, callers>> /\ net' = net \ {m}
  BY DEF HandleElsewhere
<1>2. SignalsOK'
  BY <1>1, BeforeStep
<1>3. Set(d, Ended(dev[d])) \/ Set(d, dev[d])
  BY DEF HandleElsewhere
<1>4. CASE Set(d, Ended(dev[d]))
  BY <1>1, <1>2, <1>4, EndsOK
<1>5. CASE Set(d, dev[d])
  <2>1. Moves(d, dev[d], dev[d], callers) /\ DeviceOK(d, dev[d], callers)
    BY BeforeStep DEF Moves
  <2> QED BY <1>1, <1>2, <1>5, <2>1, QuietOK
<1> QED BY <1>3, <1>4, <1>5

\* The other side rejects or hangs up.
LEMMA HandleEndOK == ASSUME IInv, NEW d \in on, NEW m \in net, HandleEnd(d, m) PROVE IInv'
<1>1. UNCHANGED <<setup, callers>> /\ net' = net \ {m}
  BY DEF HandleEnd
<1>2. SignalsOK'
  BY <1>1, BeforeStep
<1>3. Set(d, Ended(dev[d])) \/ Set(d, dev[d])
  BY DEF HandleEnd
<1>4. CASE Set(d, Ended(dev[d]))
  BY <1>1, <1>2, <1>4, EndsOK
<1>5. CASE Set(d, dev[d])
  <2>1. Moves(d, dev[d], dev[d], callers) /\ DeviceOK(d, dev[d], callers)
    BY BeforeStep DEF Moves
  <2> QED BY <1>1, <1>2, <1>5, <2>1, QuietOK
<1> QED BY <1>3, <1>4, <1>5

\* A call rings, or is refused by a device that is in another.
LEMMA HandleOfferOK ==
  ASSUME IInv, NEW d \in on, NEW m \in net, m.to = d, HandleOffer(d, m) PROVE IInv'
<1> DEFINE s == dev[d]
           o == [call |-> m.call, from |-> m.from]
           t == [Fresh(s, m.call, "ringing-in") EXCEPT !.offer = o]
<1>1. Core(d, s, callers) /\ Len(callers) \in Nat /\ UNCHANGED <<setup, callers>> /\ m.t = "offer"
  BY BeforeStep DEF HandleOffer
<1>2. /\ m.call \in Ids /\ m.call <= Len(callers) /\ m.from = callers[m.call] /\ callers[m.call] # d
      /\ callers[m.call] \in Devices
  BY <1>1, SignalIn DEF SignalOK
<1>3. CASE m.call = s.id
  <2>1. net' = net \ {m} /\ dev' = dev
    BY <1>3 DEF HandleOffer
  <2>2. SignalsOK'
    BY <1>1, <2>1, BeforeStep
  <2> QED BY <1>1, <2>1, <2>2, NetOnlyOK
<1>4. CASE m.call # s.id /\ Running(s)
  <2>1. net' = Sent(net \ {m}, d, "reject", m.call) /\ dev' = dev
    BY <1>4 DEF HandleOffer
  <2>2. \A n \in net' : SignalOK(n, callers)
    BY <1>2, <2>1, SentOK
  <2>3. SignalsOK'
    BY <1>1, <2>2, SendOK
  <2> QED BY <1>1, <2>1, <2>3, NetOnlyOK
<1>5. CASE m.call # s.id /\ ~Running(s)
  <2>1. net' = net \ {m} /\ Set(d, t)
    BY <1>5 DEF HandleOffer
  <2>2. SignalsOK'
    BY <1>1, <2>1, BeforeStep
  <2>3. DeviceOK(d, t, callers) /\ Moves(d, s, t, callers)
    BY <1>1, <1>2, <1>5, RingingOK
  <2> HIDE DEF t
  <2> QED BY <1>1, <2>1, <2>2, <2>3, QuietOK
<1> QED BY <1>3, <1>4, <1>5

\* An answer comes.
LEMMA HandleAnswerOK ==
  ASSUME IInv, NEW d \in on, NEW m \in net, HandleAnswer(d, m) PROVE IInv'
<1> DEFINE s == dev[d]
           c == m.call = s.id /\ s.status = "ringing-out" /\ s.pc # None
<1>1. DeviceOK(d, s, callers) /\ UNCHANGED <<setup, callers>> /\ net' = net \ {m} /\ m.from \in Devices
  BY BeforeStep, SignalIn DEF HandleAnswer
<1>2. SignalsOK'
  BY <1>1, BeforeStep
<1>3. CASE c
  <2>1. Set(d, Answered(s, m))
    BY <1>3 DEF HandleAnswer
  <2>2. DeviceOK(d, Answered(s, m), callers) /\ Moves(d, s, Answered(s, m), callers)
    BY <1>1, <1>3, AnsweredOK
  <2> QED BY <1>1, <1>2, <2>1, <2>2, QuietOK
<1>4. CASE ~c
  <2>1. Set(d, s)
    BY <1>4 DEF HandleAnswer
  <2>2. Moves(d, s, s, callers)
    BY DEF Moves
  <2> QED BY <1>1, <1>2, <2>1, <2>2, QuietOK
<1> QED BY <1>3, <1>4

(***************************************************************************)
(* The connection, the camera and the screen.                              *)
(***************************************************************************)
\* Two connections that were described to each other come up.
LEMMA ConnectedOK == ASSUME IInv, NEW d \in on, NEW c \in Ids, Connected(d, c) PROVE IInv'
<1> DEFINE s == dev[d]
           a == IF s.pc = c /\ s.status # "none" THEN "active" ELSE s.status
           t == Up(s, c, a)
<1>1. DeviceOK(d, s, callers) /\ SignalsOK' /\ s \in State
  BY BeforeStep DEF Connected
<1>2. Set(d, t) /\ UNCHANGED <<setup, callers>> /\ s.peer[c] = "stable" /\ Matched(d, c)
  BY <1>1 DEF Connected, State, Up
<1>3. DeviceOK(d, t, callers) /\ t.remote = s.remote /\ \A e \in Ids : t.peer[e] = IF e = c THEN "up" ELSE s.peer[e]
  BY <1>1, <1>2, UpOK
<1> HIDE DEF t
<1> QED BY <1>1, <1>2, <1>3, SetOK

\* A connection fails.
LEMMA ConnectionFailedOK == ASSUME IInv, NEW d \in on, NEW c \in Ids, ConnectionFailed(d, c) PROVE IInv'
<1>1. Set(d, Ended(dev[d])) /\ UNCHANGED <<setup, callers>> /\ SignalsOK'
  BY BeforeStep DEF ConnectionFailed
<1> QED BY <1>1, EndsOK

\* A device that changes only its camera, its screen and what it waits for in them.
LEMMA CaptureOK ==
  ASSUME IInv, NEW d \in on, NEW t \in State, Set(d, t), UNCHANGED <<setup, callers, net>>,
         t.id = dev[d].id, t.status = dev[d].status, t.pc = dev[d].pc, t.offer = dev[d].offer,
         t.peer = dev[d].peer, t.remote = dev[d].remote, t.work = dev[d].work, t.mics = dev[d].mics,
         t.local = dev[d].local, t.outlived = dev[d].outlived,
         t.camera \/ t.screen => \/ dev[d].camera \/ dev[d].screen \/ Running(dev[d]) \/ dev[d].picking # {},
         \A c \in t.picking : c \in dev[d].picking \/ Runs(dev[d], c)
  PROVE  IInv'
<1>1. DeviceOK(d, dev[d], callers) /\ SignalsOK' /\ (Straight(dev[d]) => Tidy(dev[d]))
  BY BeforeStep DEF Core
<1>2. Straight(dev[d]) => (t.camera \/ t.screen => Running(dev[d])) /\ \A c \in t.picking : Runs(dev[d], c)
  BY <1>1 DEF Tidy, Runs
<1>3. DeviceOK(d, t, callers) /\ Moves(d, dev[d], t, callers)
  BY <1>1, <1>2, MinorOK
<1> QED BY <1>1, <1>3, QuietOK

\* The camera button, on and off, and the camera that was asked for.
LEMMA CameraOK == ASSUME IInv, NEW d \in on, ToggleCamera(d) \/ DisableCamera(d) \/ GotCamera(d) PROVE IInv'
<1> DEFINE x == dev[d]
<1>1. x \in State /\ DeviceOK(d, x, callers) /\ x.id \in Ids \cup {None} /\ x.asking \subseteq Ids /\ Typed(x)
  BY BeforeStep, Fields
<1>2. UNCHANGED <<setup, callers, net>>
  BY DEF ToggleCamera, DisableCamera, GotCamera
<1>3. CASE ToggleCamera(d)
  <2> DEFINE A == x.asking \cup {x.id}
             t == [x EXCEPT !.asking = A]
  <2>1. Set(d, t) /\ x.status # "none"
    BY <1>3 DEF ToggleCamera, Offers
  <2>2. A \subseteq Ids
    BY <1>1, <2>1 DEF Typed
  <2> HIDE DEF x, A
  <2>3. /\ t \in State /\ t.id = x.id /\ t.status = x.status /\ t.pc = x.pc /\ t.offer = x.offer
        /\ t.peer = x.peer /\ t.remote = x.remote /\ t.work = x.work /\ t.mics = x.mics /\ t.local = x.local
        /\ t.outlived = x.outlived /\ t.camera = x.camera /\ t.screen = x.screen /\ t.picking = x.picking
    BY <1>1, <2>2 DEF State
  <2> HIDE DEF t
  <2> QED BY <1>2, <2>1, <2>3, CaptureOK DEF x
<1>4. CASE DisableCamera(d)
  <2> DEFINE t == [x EXCEPT !.camera = FALSE]
  <2>1. Set(d, t)
    BY <1>4 DEF DisableCamera
  <2> HIDE DEF x
  <2>2. /\ t \in State /\ t.id = x.id /\ t.status = x.status /\ t.pc = x.pc /\ t.offer = x.offer
        /\ t.peer = x.peer /\ t.remote = x.remote /\ t.work = x.work /\ t.mics = x.mics /\ t.local = x.local
        /\ t.outlived = x.outlived /\ ~t.camera /\ t.screen = x.screen /\ t.picking = x.picking
    BY <1>1 DEF State
  <2> HIDE DEF t
  <2> QED BY <1>2, <2>1, <2>2, CaptureOK DEF x
<1>5. CASE GotCamera(d)
  <2>1. PICK c \in x.asking, s \in {x, WithCamera(x)} : Set(d, [s EXCEPT !.asking = @ \ {c}])
    BY <1>5 DEF GotCamera
  <2> DEFINE t == [s EXCEPT !.asking = @ \ {c}]
  <2> HIDE DEF x
  <2>2. /\ s \in State /\ s.id = x.id /\ s.status = x.status /\ s.pc = x.pc /\ s.offer = x.offer
        /\ s.peer = x.peer /\ s.remote = x.remote /\ s.work = x.work /\ s.mics = x.mics /\ s.local = x.local
        /\ s.outlived = x.outlived /\ s.screen = x.screen /\ s.picking = x.picking
        /\ s.camera => x.camera \/ Running(x)
    BY <1>1, WithCameraOK
  <2>3. s.asking \ {c} \subseteq Ids
    BY <2>2, Fields
  <2>4. /\ t \in State /\ t.id = s.id /\ t.status = s.status /\ t.pc = s.pc /\ t.offer = s.offer
        /\ t.peer = s.peer /\ t.remote = s.remote /\ t.work = s.work /\ t.mics = s.mics /\ t.local = s.local
        /\ t.outlived = s.outlived /\ t.camera = s.camera /\ t.screen = s.screen /\ t.picking = s.picking
    BY <2>2, <2>3 DEF State
  <2>5. Set(d, t)
    BY <2>1
  <2> HIDE DEF t
  <2> QED BY <1>2, <2>2, <2>4, <2>5, CaptureOK DEF x
<1> QED BY <1>3, <1>4, <1>5

\* The screen: asked for, picked, and stopped.
LEMMA ScreenOK ==
  ASSUME IInv, NEW d \in on, StartScreenShare(d) \/ GotScreen(d) \/ StopScreenShare(d) PROVE IInv'
<1> DEFINE x == dev[d]
<1>1. x \in State /\ x.id \in Ids \cup {None} /\ x.picking \subseteq Ids /\ Typed(x)
  BY BeforeStep, Fields
<1>2. UNCHANGED <<setup, callers, net>>
  BY DEF StartScreenShare, GotScreen, StopScreenShare
<1>3. CASE StartScreenShare(d)
  <2> DEFINE A == x.picking \cup {x.id}
             t == [x EXCEPT !.picking = A]
  <2>1. Set(d, t) /\ x.status = "active"
    BY <1>3 DEF StartScreenShare, Offers
  <2>2. A \subseteq Ids /\ \A c \in A : c \in x.picking \/ Runs(x, c)
    BY <1>1, <2>1 DEF Typed, Runs, Running
  <2> HIDE DEF x, A
  <2>3. /\ t \in State /\ t.id = x.id /\ t.status = x.status /\ t.pc = x.pc /\ t.offer = x.offer
        /\ t.peer = x.peer /\ t.remote = x.remote /\ t.work = x.work /\ t.mics = x.mics /\ t.local = x.local
        /\ t.outlived = x.outlived /\ t.camera = x.camera /\ t.screen = x.screen /\ t.picking = A
    BY <1>1, <2>2 DEF State
  <2> HIDE DEF t
  <2> QED BY <1>2, <2>1, <2>2, <2>3, CaptureOK DEF x
<1>4. CASE GotScreen(d)
  <2>1. PICK c \in x.picking, picked \in BOOLEAN :
           Set(d, IF ~picked THEN [x EXCEPT !.picking = @ \ {c}]
                  ELSE [[x EXCEPT !.picking = @ \ {c}] EXCEPT
                          !.screen = TRUE, !.sharing = ([x EXCEPT !.picking = @ \ {c}].status # "none")])
    BY <1>4 DEF GotScreen
  <2> DEFINE s == [x EXCEPT !.picking = @ \ {c}]
             b == s.status # "none"
             t == [s EXCEPT !.screen = TRUE, !.sharing = b]
  <2>2. Set(d, IF ~picked THEN s ELSE t) /\ b \in BOOLEAN
    BY <2>1
  <2> HIDE DEF x
  <2>3. /\ s \in State /\ s.id = x.id /\ s.status = x.status /\ s.pc = x.pc /\ s.offer = x.offer
        /\ s.peer = x.peer /\ s.remote = x.remote /\ s.work = x.work /\ s.mics = x.mics /\ s.local = x.local
        /\ s.outlived = x.outlived /\ s.camera = x.camera /\ s.screen = x.screen /\ s.picking = x.picking \ {c}
    BY <1>1 DEF State
  <2> HIDE DEF s, b
  <2>4. /\ t \in State /\ t.id = s.id /\ t.status = s.status /\ t.pc = s.pc /\ t.offer = s.offer
        /\ t.peer = s.peer /\ t.remote = s.remote /\ t.work = s.work /\ t.mics = s.mics /\ t.local = s.local
        /\ t.outlived = s.outlived /\ t.camera = s.camera /\ t.picking = s.picking
    BY <2>2, <2>3 DEF State
  <2> HIDE DEF t
  <2>5. CASE ~picked
    BY <1>2, <2>2, <2>3, <2>5, CaptureOK DEF x
  <2>6. CASE picked
    BY <1>2, <2>1, <2>2, <2>3, <2>4, <2>6, CaptureOK DEF x
  <2> QED BY <2>5, <2>6
<1>5. CASE StopScreenShare(d)
  <2> DEFINE t == [x EXCEPT !.screen = FALSE, !.sharing = FALSE]
  <2>1. Set(d, t)
    BY <1>5 DEF StopScreenShare
  <2> HIDE DEF x
  <2>2. /\ t \in State /\ t.id = x.id /\ t.status = x.status /\ t.pc = x.pc /\ t.offer = x.offer
        /\ t.peer = x.peer /\ t.remote = x.remote /\ t.work = x.work /\ t.mics = x.mics /\ t.local = x.local
        /\ t.outlived = x.outlived /\ t.camera = x.camera /\ ~t.screen /\ t.picking = x.picking
    BY <1>1 DEF State
  <2> HIDE DEF t
  <2> QED BY <1>2, <2>1, <2>2, CaptureOK DEF x
<1> QED BY <1>3, <1>4, <1>5

(***************************************************************************)
(* The invariant.                                                          *)
(***************************************************************************)
\* Nobody has called yet.
LEMMA InitIInv == Init => IInv
<1> SUFFICES ASSUME Init PROVE IInv
  OBVIOUS
<1>1. /\ on \subseteq Devices /\ capturing \subseteq on /\ callers = <<>> /\ net = {}
      /\ dev = [d \in Devices |-> Quiet]
  BY DEF Init, Devices
<1>2. /\ Quiet \in State /\ Quiet.id = None /\ Quiet.status = "none" /\ Quiet.pc = None /\ Quiet.offer = Nobody
      /\ Quiet.mics = {} /\ Quiet.picking = {} /\ ~Quiet.camera /\ ~Quiet.screen
      /\ \A c \in Ids : Quiet.peer[c] = "none" /\ Quiet.work[c] = "none" /\ Quiet.remote[c] = Nobody
  BY OriginOK DEF Quiet, State
<1>3. Len(callers) = 0 /\ callers \in Seq(on) /\ Len(callers) <= MaxCalls
  BY <1>1, CallsAssumption
<1>4. \A d \in Devices : DeviceOK(d, Quiet, callers)
  <2> SUFFICES ASSUME NEW d \in Devices PROVE DeviceOK(d, Quiet, callers)
    OBVIOUS
  <2>1. Typed(Quiet)
    BY <1>2 DEF Typed
  <2>2. Begun(Quiet, callers)
    BY <1>2, <1>3 DEF Begun, None
  <2>3. Roles(d, Quiet, callers)
    BY <1>2 DEF Roles
  <2>4. Tidy(Quiet) /\ Steady(d, Quiet, callers)
    <3> HIDE DEF Quiet
    <3>1. Tidy(Quiet)
      BY <1>2, OriginOK DEF Tidy, Live
    <3>2. Steady(d, Quiet, callers)
      BY <1>2 DEF Steady
    <3> QED BY <3>1, <3>2
  <2> QED BY <2>1, <2>2, <2>3, <2>4 DEF DeviceOK, Core
<1>5. Paired(callers)
  BY <1>3, IdsOK DEF Paired
<1>6. SignalsOK
  BY <1>1 DEF SignalsOK
<1> QED BY <1>1, <1>2, <1>3, <1>4, <1>5, <1>6 DEF IInv

\* Every step keeps it.
LEMMA IInvStep == IInv /\ [Next]_vars => IInv'
<1> SUFFICES ASSUME IInv, [Next]_vars PROVE IInv'
  OBVIOUS
<1>1. CASE UNCHANGED vars
  <2>1. UNCHANGED <<setup, callers, dev, net>>
    BY <1>1 DEF vars
  <2>2. SignalsOK'
    BY <2>1 DEF IInv, SignalsOK, SignalOK, setup
  <2> QED BY <2>1, <2>2, NetOnlyOK
<1>2. CASE Lose
  <2>1. net' \subseteq net /\ UNCHANGED <<setup, callers, dev>>
    BY <1>2 DEF Lose
  <2>2. SignalsOK'
    BY <2>1 DEF IInv, SignalsOK, SignalOK, setup
  <2> QED BY <2>1, <2>2, NetOnlyOK
<1>3. ASSUME NEW d \in on, Act(d) PROVE IInv'
  <2>1. CASE StartCall(d) \/ AcceptCall(d) \/ RejectCall(d) \/ Hangup(d) \/ Dismiss(d)
    BY <2>1, StartCallOK, AcceptCallOK, HungUpOK, DismissOK
  <2>2. CASE RingTimeout(d) \/ RepeatOffer(d) \/ RepeatAnswer(d)
    BY <2>2, HungUpOK, RepeatOK
  <2>3. CASE Receive(d)
    <3>1. PICK m \in net : m.to = d /\ (HandleElsewhere(d, m) \/ HandleOffer(d, m) \/ HandleAnswer(d, m) \/ HandleEnd(d, m))
      BY <2>3 DEF Receive
    <3> QED BY <3>1, HandleElsewhereOK, HandleOfferOK, HandleAnswerOK, HandleEndOK
  <2>4. CASE \E c \in Ids : Proceed(d, c)
    BY <2>4, CreatePeerOK, GotMicrophoneOK, NoMicrophoneOK, CameraFirstOK, DescribeOfferOK, DescribeAnswerOK
       DEF Proceed
  <2>5. CASE \E c \in Ids : Connected(d, c) \/ ConnectionFailed(d, c)
    BY <2>5, ConnectedOK, ConnectionFailedOK
  <2>6. CASE ToggleCamera(d) \/ DisableCamera(d) \/ GotCamera(d)
    BY <2>6, CameraOK
  <2>7. CASE StartScreenShare(d) \/ GotScreen(d) \/ StopScreenShare(d)
    BY <2>7, ScreenOK
  <2> QED BY <1>3, <2>1, <2>2, <2>3, <2>4, <2>5, <2>6, <2>7 DEF Act
<1> QED BY <1>1, <1>2, <1>3 DEF Next

\* Always: what a device holds is of calls that were started; offers are their
\* callers'; unless a continuation outlived its call everything is of the call that
\* runs and something brings it further; a caller's connection is described once.
THEOREM Invariant == Spec => []IInv
<1> QED BY InitIInv, IInvStep, PTL DEF Spec

\* Every device is always in a state it can be in, and a call that rings or connects
\* has something that ends it or brings it up (startCall, acceptCall, endCall).
THEOREM CallsConsistent == Spec => []Consistent
<1>1. IInv => Consistent
  <2> SUFFICES ASSUME IInv PROVE Consistent
    OBVIOUS
  <2>1. \A d \in Devices : DeviceOK(d, dev[d], callers)
    BY DEF IInv
  <2>2. net \subseteq [to : on, from : on, call : Ids, t : {"offer", "answer", "reject", "hangup"}]
    BY DEF IInv, SignalsOK, SignalOK
  <2>3. TypeOK
    BY <2>1, <2>2 DEF IInv, TypeOK, DeviceOK, Core, Typed
  <2>4. NeverStuck
    <3> SUFFICES ASSUME NEW d \in Devices, Straight(dev[d])
                 PROVE  /\ dev[d].status = "ringing-out" =>
                             dev[d].work[dev[d].id] # "none" \/ dev[d].peer[dev[d].id] = "offered"
                        /\ dev[d].status = "connecting" =>
                             \/ dev[d].work[dev[d].id] # "none"
                             \/ dev[d].pc = dev[d].id /\ dev[d].peer[dev[d].id] = "stable"
                        /\ dev[d].status = "active" => dev[d].pc = dev[d].id /\ dev[d].peer[dev[d].id] = "up"
      BY DEF NeverStuck
    <3> QED BY <2>1 DEF DeviceOK, Steady
  <2> QED BY <2>3, <2>4 DEF Consistent
<1> QED BY <1>1, Invariant, PTL

\* What is on always belongs to the call that runs, unless its await outlived its
\* call (endCall, enableCamera).
THEOREM CallsTracksHeld == Spec => []TracksHeld
<1>1. IInv => TracksHeld
  BY DEF IInv, DeviceOK, Core, Tidy, TracksHeld
<1> QED BY <1>1, Invariant, PTL

\* A connection is only ever given the description of its own call, unless an await
\* outlived its call (acceptCall, handleCallSignal).
THEOREM CallsDescriptionsMatch == Spec => []DescriptionsMatch
<1>1. IInv => DescriptionsMatch
  BY DEF IInv, DeviceOK, Core, Tidy, DescriptionsMatch
<1> QED BY <1>1, Invariant, PTL

\* A call is up between two devices at most, however many devices answer it,
\* however often, and also when awaits outlived their calls (handleCallSignal).
THEOREM CallsTwoEnds == Spec => []TwoEnds
<1>1. IInv => TwoEnds
  <2> SUFFICES ASSUME IInv, NEW c \in Ids PROVE Cardinality({d \in Devices : dev[d].peer[c] = "up"}) <= 2
    BY DEF TwoEnds
  <2> DEFINE U == {d \in Devices : dev[d].peer[c] = "up"}
  <2>1. PICK e : U \subseteq {callers[c], e}
    <3>1. CASE \E e \in U : e # callers[c]
      <4>1. PICK e \in U : e # callers[c]
        BY <3>1
      <4>2. c <= Len(callers)
        BY DEF IInv, DeviceOK, Core, Begun
      <4>3. \A f \in U : f # callers[c] => f = e
        BY <4>1, <4>2 DEF IInv, Paired
      <4> QED BY <4>3
    <3>2. CASE ~\E e \in U : e # callers[c]
      BY <3>2
    <3> QED BY <3>1, <3>2
  <2>2. IsFiniteSet({callers[c], e}) /\ Cardinality({callers[c], e}) <= 2
    <3>1. IsFiniteSet({callers[c]}) /\ Cardinality({callers[c]}) = 1
      BY FS_Singleton
    <3>2. {callers[c], e} = {callers[c]} \cup {e}
      OBVIOUS
    <3> QED BY <3>1, <3>2, FS_AddElement
  <2>3. IsFiniteSet(U) /\ Cardinality(U) <= Cardinality({callers[c], e})
    BY <2>1, <2>2, FS_Subset
  <2>4. Cardinality(U) \in Nat /\ Cardinality({callers[c], e}) \in Nat
    BY <2>2, <2>3, FS_CardinalityType
  <2> QED BY <2>2, <2>3, <2>4
<1> QED BY <1>1, Invariant, PTL

(***************************************************************************)
(* What a step does to the call of a device.                               *)
(***************************************************************************)
\* One device: a running call is not replaced, an ended one does not run again.
Turn(s, t) == Straight(t) =>
    /\ Running(s) => t.id = s.id
    /\ s.status = "ended" /\ t.id = s.id => t.status = "ended"

Kept == \A d \in Devices : Turn(dev[d], dev'[d])

\* A step that leaves the devices, or the call of one.
LEMMA SameKept ==
  ASSUME IInv, NEW d \in on,
         \/ UNCHANGED dev
         \/ \E t \in State : Set(d, t) /\ Turn(dev[d], t)
  PROVE  Kept
<1>1. dev \in [Devices -> State] /\ d \in Devices
  BY DEF IInv
<1>2. \A e \in Devices : Turn(dev[e], dev[e])
  BY DEF Turn
<1> QED BY <1>1, <1>2 DEF Set, Kept

\* A call that ends stays the call it was.
LEMMA EndedTurn ==
  ASSUME NEW s, NEW u, Typed(u), u.id = s.id, u.status = s.status
  PROVE  Turn(s, Ended(u)) /\ Ended(u) \in State
BY EndedFields DEF Turn

\* Also when an exception ended it.
LEMMA FailedTurn ==
  ASSUME NEW d, NEW k, NEW s, Core(d, s, k), NEW c \in Ids
  PROVE  /\ Turn(s, Ended([s EXCEPT !.work[c] = "none"]))
         /\ Ended([s EXCEPT !.work[c] = "none"]) \in State
<1> DEFINE u == [s EXCEPT !.work[c] = "none"]
<1>1. Typed(u)
  BY StoppedOK DEF Core
<1>2. u.id = s.id /\ u.status = s.status
  BY DEF Core, Typed, State
<1> HIDE DEF u
<1> QED BY <1>1, <1>2, EndedTurn DEF u

\* Calls that begin, end and disappear.
LEMMA ButtonsKeep ==
  ASSUME IInv, IInv', NEW d \in on,
         \/ StartCall(d) \/ AcceptCall(d) \/ RejectCall(d) \/ Hangup(d) \/ Dismiss(d)
         \/ RingTimeout(d) \/ RepeatOffer(d) \/ RepeatAnswer(d)
  PROVE  Kept
<1> DEFINE s == dev[d]
<1>1. /\ s \in State /\ Typed(s) /\ Begun(s, callers) /\ Len(callers) \in Nat /\ callers \in Seq(on)
      /\ s.id \in Ids \cup {None} /\ d \in Devices
  BY BeforeStep, Fields DEF IInv
<1>2. \A t : Set(d, t) => t \in State
  BY <1>1 DEF IInv, Set
<1>3. CASE StartCall(d)
  <2> DEFINE c == Len(callers')
             f == Fresh(s, c, "ringing-out")
             t == [f EXCEPT !.work[c] = "servers"]
  <2>1. Set(d, t) /\ ~Running(s) /\ callers' = Append(callers, d)
    BY <1>3 DEF StartCall
  <2>2. c = Len(callers) + 1 /\ c # s.id
    BY <1>1, <2>1 DEF Begun, Ids, None
  <2>3. t.id = c
    BY <1>1 DEF Fresh, Cleared, State
  <2>4. Turn(s, t)
    BY <2>1, <2>2, <2>3 DEF Turn
  <2> HIDE DEF t
  <2> QED BY <1>2, <2>1, <2>4, SameKept
<1>4. CASE AcceptCall(d)
  <2> DEFINE t == [s EXCEPT !.status = "connecting", !.work[s.id] = "servers"]
  <2>1. Set(d, t) /\ s.status = "ringing-in"
    BY <1>4 DEF AcceptCall, Offers
  <2>2. t.id = s.id
    BY <1>1 DEF State
  <2>3. Turn(s, t)
    BY <2>1, <2>2 DEF Turn
  <2> HIDE DEF t
  <2> QED BY <1>2, <2>1, <2>3, SameKept
<1>5. CASE RejectCall(d) \/ Hangup(d) \/ RingTimeout(d)
  <2>1. Set(d, Ended(s))
    BY <1>5 DEF RejectCall, Hangup, RingTimeout
  <2> QED BY <1>1, <2>1, EndedTurn, SameKept
<1>6. CASE Dismiss(d)
  <2>1. Set(d, Cleared(s)) /\ s.status = "ended"
    BY <1>6 DEF Dismiss, Offers
  <2>2. Cleared(s).id = None /\ s.id # None
    BY <1>1, <2>1 DEF Cleared, State, Typed
  <2>3. Turn(s, Cleared(s))
    BY <2>1, <2>2 DEF Turn, Running
  <2> QED BY <1>2, <2>1, <2>3, SameKept
<1>7. CASE RepeatOffer(d) \/ RepeatAnswer(d)
  BY <1>7, SameKept DEF RepeatOffer, RepeatAnswer
<1> QED BY <1>3, <1>4, <1>5, <1>6, <1>7

\* The continuations.
LEMMA ProceedKeeps == ASSUME IInv, IInv', NEW d \in on, NEW c \in Ids, Proceed(d, c) PROVE Kept
<1> DEFINE s == dev[d]
<1>1. s \in State /\ Core(d, s, callers) /\ DeviceOK(d, s, callers) /\ d \in Devices
  BY BeforeStep
<1>2. \A t : Set(d, t) => t \in State
  BY <1>1 DEF IInv, Set
<1>3. \A t : t.id = s.id /\ t.status = s.status => Turn(s, t)
  BY DEF Turn
<1>4. CASE CreatePeer(d, c)
  <2> DEFINE t == [s EXCEPT !.pc = c, !.peer[c] = "new", !.work[c] = "mic"]
  <2>1. Set(d, t) /\ t.id = s.id /\ t.status = s.status
    BY <1>1, <1>4 DEF CreatePeer, State
  <2> HIDE DEF t
  <2> QED BY <1>2, <1>3, <2>1, SameKept
<1>5. CASE GotMicrophone(d, c)
  <2> DEFINE v == [s EXCEPT !.mics = @ \cup {c}]
  <2>1. v.peer = s.peer /\ v.status = s.status /\ v.id = s.id
    BY <1>1 DEF State
  <2>2. CASE s.peer[c] = "closed"
    <3>1. Set(d, Ended([v EXCEPT !.work[c] = "none"])) /\ s.work[c] = "mic"
      BY <1>5, <2>1, <2>2 DEF GotMicrophone, Fails
    <3>2. Core(d, v, callers)
      BY <1>1, <2>2, <3>1, LateMicOK
    <3> HIDE DEF v
    <3>3. Turn(v, Ended([v EXCEPT !.work[c] = "none"]))
      BY <3>2, FailedTurn
    <3>4. Turn(s, Ended([v EXCEPT !.work[c] = "none"]))
      BY <2>1, <3>3 DEF Turn, Running
    <3> QED BY <1>2, <3>1, <3>4, SameKept
  <2>3. CASE s.peer[c] # "closed"
    <3>1. PICK a \in {"describe", "camera"} :
             Set(d, [v EXCEPT !.local = IF v.status = "none" THEN @ ELSE c, !.work[c] = a])
      BY <1>5, <2>1, <2>3 DEF GotMicrophone
    <3> DEFINE t == [v EXCEPT !.local = IF v.status = "none" THEN @ ELSE c, !.work[c] = a]
    <3>2. t.id = s.id /\ t.status = s.status
      BY <1>1 DEF State
    <3> HIDE DEF t
    <3> QED BY <1>2, <1>3, <3>1, <3>2, SameKept DEF t
  <2> QED BY <2>2, <2>3
<1>6. CASE NoMicrophone(d, c)
  <2>1. Set(d, Ended([s EXCEPT !.work[c] = "none"]))
    BY <1>6 DEF NoMicrophone, Fails
  <2> QED BY <1>1, <2>1, FailedTurn, SameKept
<1>7. CASE CameraFirst(d, c)
  <2>1. PICK w \in {s, WithCamera(s)} : Set(d, [w EXCEPT !.work[c] = "describe"])
    BY <1>7 DEF CameraFirst
  <2>2. w \in State /\ w.id = s.id /\ w.status = s.status
    BY <1>1, WithCameraOK
  <2> DEFINE t == [w EXCEPT !.work[c] = "describe"]
  <2>3. t.id = s.id /\ t.status = s.status
    BY <2>2 DEF State
  <2> HIDE DEF t
  <2> QED BY <1>2, <1>3, <2>1, <2>3, SameKept DEF t
<1>8. CASE DescribeOffer(d, c)
  <2> DEFINE t == [s EXCEPT !.peer[c] = "offered", !.work[c] = "none"]
  <2>1. Set(d, Ended([s EXCEPT !.work[c] = "none"])) \/ Set(d, t)
    BY <1>8 DEF DescribeOffer, Fails
  <2>2. t.id = s.id /\ t.status = s.status
    BY <1>1 DEF State
  <2> HIDE DEF t
  <2>3. CASE Set(d, t)
    BY <1>2, <1>3, <2>2, <2>3, SameKept
  <2>4. CASE Set(d, Ended([s EXCEPT !.work[c] = "none"]))
    BY <1>1, <2>4, FailedTurn, SameKept
  <2> QED BY <2>1, <2>3, <2>4
<1>9. CASE DescribeAnswer(d, c)
  <2> DEFINE t == [s EXCEPT !.peer[c] = "stable", !.remote[c] = s.offer, !.work[c] = "none"]
  <2>1. Set(d, Ended([s EXCEPT !.work[c] = "none"])) \/ Set(d, t)
    BY <1>9 DEF DescribeAnswer, Fails
  <2>2. t.id = s.id /\ t.status = s.status
    BY <1>1 DEF State
  <2> HIDE DEF t
  <2>3. CASE Set(d, t)
    BY <1>2, <1>3, <2>2, <2>3, SameKept
  <2>4. CASE Set(d, Ended([s EXCEPT !.work[c] = "none"]))
    BY <1>1, <2>4, FailedTurn, SameKept
  <2> QED BY <2>1, <2>3, <2>4
<1> QED BY <1>4, <1>5, <1>6, <1>7, <1>8, <1>9 DEF Proceed

\* What arrives.
LEMMA ReceiveKeeps == ASSUME IInv, IInv', NEW d \in on, Receive(d) PROVE Kept
<1> DEFINE s == dev[d]
<1>1. s \in State /\ Typed(s) /\ d \in Devices
  BY BeforeStep
<1>2. \A t : Set(d, t) => t \in State
  BY <1>1 DEF IInv, Set
<1>3. Turn(s, s) /\ Turn(s, Ended(s))
  BY <1>1, EndedTurn DEF Turn
<1>4. PICK m \in net : HandleElsewhere(d, m) \/ HandleOffer(d, m) \/ HandleAnswer(d, m) \/ HandleEnd(d, m)
  BY DEF Receive
<1>5. CASE HandleElsewhere(d, m) \/ HandleEnd(d, m)
  <2>1. Set(d, Ended(s)) \/ Set(d, s)
    BY <1>5 DEF HandleElsewhere, HandleEnd
  <2> QED BY <1>2, <1>3, <2>1, SameKept
<1>6. CASE HandleOffer(d, m)
  <2> DEFINE t == [Fresh(s, m.call, "ringing-in") EXCEPT !.offer = [call |-> m.call, from |-> m.from]]
  <2>1. UNCHANGED dev \/ (Set(d, t) /\ m.call # s.id /\ ~Running(s))
    BY <1>6 DEF HandleOffer
  <2>2. t.id = m.call
    BY <1>1 DEF Fresh, Cleared, State
  <2>3. m.call # s.id /\ ~Running(s) => Turn(s, t)
    BY <2>2 DEF Turn
  <2> HIDE DEF t
  <2> QED BY <1>2, <2>1, <2>3, SameKept
<1>7. CASE HandleAnswer(d, m)
  <2> DEFINE u == [s EXCEPT !.status = "connecting", !.peer[s.pc] = "stable",
                            !.remote[s.pc] = [call |-> m.call, from |-> m.from]]
  <2>1. Set(d, s) \/ (s.status = "ringing-out" /\ (Set(d, u) \/ Set(d, Ended(s))))
    BY <1>7 DEF HandleAnswer, Answered
  <2>2. u.id = s.id
    BY <1>1 DEF State
  <2>3. s.status = "ringing-out" => Turn(s, u)
    BY <2>2 DEF Turn
  <2> HIDE DEF u
  <2> QED BY <1>2, <1>3, <2>1, <2>3, SameKept
<1> QED BY <1>4, <1>5, <1>6, <1>7

\* A connection comes up only for a call that runs.
LEMMA ConnectionKeeps ==
  ASSUME IInv, IInv', NEW d \in on, NEW c \in Ids, Connected(d, c) \/ ConnectionFailed(d, c)
  PROVE  Kept
<1> DEFINE s == dev[d]
           t == [s EXCEPT !.peer[c] = "up", !.status = IF s.pc = c /\ @ # "none" THEN "active" ELSE @]
<1>1. s \in State /\ Typed(s) /\ (Straight(s) => Tidy(s)) /\ d \in Devices
  BY BeforeStep DEF Core
<1>2. \A u : Set(d, u) => u \in State
  BY <1>1 DEF IInv, Set
<1>3. CASE Connected(d, c)
  <2>1. Set(d, t) /\ s.peer[c] = "stable"
    BY <1>3 DEF Connected
  <2>2. t.id = s.id /\ t.outlived = s.outlived
    BY <1>1 DEF State
  <2>3. Straight(t) => s.status # "ended"
    BY <1>1, <2>1, <2>2, IdsOK DEF Straight, Tidy, Live, Runs, Running
  <2>4. Turn(s, t)
    BY <2>2, <2>3 DEF Turn
  <2> HIDE DEF t
  <2> QED BY <1>2, <2>1, <2>4, SameKept
<1>4. CASE ConnectionFailed(d, c)
  <2>1. Set(d, Ended(s))
    BY <1>4 DEF ConnectionFailed
  <2> QED BY <1>1, <2>1, EndedTurn, SameKept
<1> QED BY <1>3, <1>4

\* Camera and screen are no part of it.
LEMMA CaptureKeeps ==
  ASSUME IInv, IInv', NEW d \in on,
         \/ ToggleCamera(d) \/ DisableCamera(d) \/ GotCamera(d)
         \/ StartScreenShare(d) \/ GotScreen(d) \/ StopScreenShare(d)
  PROVE  Kept
<1> DEFINE s == dev[d]
<1>1. s \in State /\ DeviceOK(d, s, callers) /\ d \in Devices
  BY BeforeStep
<1>2. \A t : Set(d, t) => t \in State
  BY <1>1 DEF IInv, Set
<1>3. \A t : t.id = s.id /\ t.status = s.status => Turn(s, t)
  BY DEF Turn
<1>4. \E t : Set(d, t) /\ t.id = s.id /\ t.status = s.status
  <2>1. CASE ToggleCamera(d)
    BY <1>1, <2>1 DEF ToggleCamera, State
  <2>2. CASE DisableCamera(d)
    BY <1>1, <2>2 DEF DisableCamera, State
  <2>3. CASE GotCamera(d)
    <3>1. PICK c \in s.asking, w \in {s, WithCamera(s)} : Set(d, [w EXCEPT !.asking = @ \ {c}])
      BY <2>3 DEF GotCamera
    <3>2. w \in State /\ w.id = s.id /\ w.status = s.status
      BY <1>1, WithCameraOK
    <3> QED BY <3>1, <3>2 DEF State
  <2>4. CASE StartScreenShare(d)
    <3> DEFINE t == [s EXCEPT !.picking = @ \cup {s.id}]
    <3>1. Set(d, t)
      BY <2>4 DEF StartScreenShare
    <3>2. t.id = s.id /\ t.status = s.status
      BY <1>1 DEF State
    <3> HIDE DEF t
    <3> QED BY <3>1, <3>2
  <2>5. CASE GotScreen(d)
    <3>1. PICK c \in s.picking, picked \in BOOLEAN :
             Set(d, IF ~picked THEN [s EXCEPT !.picking = @ \ {c}]
                    ELSE [[s EXCEPT !.picking = @ \ {c}] EXCEPT
                            !.screen = TRUE, !.sharing = ([s EXCEPT !.picking = @ \ {c}].status # "none")])
      BY <2>5 DEF GotScreen
    <3> DEFINE w == [s EXCEPT !.picking = @ \ {c}]
               b == w.status # "none"
               t == [w EXCEPT !.screen = TRUE, !.sharing = b]
    <3>2. Set(d, IF ~picked THEN w ELSE t)
      BY <3>1
    <3>3. w \in State /\ w.id = s.id /\ w.status = s.status
      BY <1>1 DEF State
    <3> HIDE DEF w, b
    <3>4. t.id = w.id /\ t.status = w.status
      BY <3>3 DEF State
    <3> HIDE DEF t
    <3> QED BY <3>2, <3>3, <3>4
  <2>6. CASE StopScreenShare(d)
    <3> DEFINE t == [s EXCEPT !.screen = FALSE, !.sharing = FALSE]
    <3>1. Set(d, t)
      BY <2>6 DEF StopScreenShare
    <3>2. t.id = s.id /\ t.status = s.status
      BY <1>1 DEF State
    <3> HIDE DEF t
    <3> QED BY <3>1, <3>2
  <2> QED BY <2>1, <2>2, <2>3, <2>4, <2>5, <2>6
<1> QED BY <1>2, <1>3, <1>4, SameKept

\* A running call is never replaced and one that has ended never runs again, unless
\* an await outlived its call: whatever signal comes late, twice or for another call
\* (handleCallSignal, startCall, endCall).
THEOREM CallsAreKept == Spec => CallsKept
<1>1. IInv /\ IInv' /\ [Next]_vars => [Kept]_vars
  <2> SUFFICES ASSUME IInv, IInv', Next PROVE Kept
    OBVIOUS
  <2>1. CASE Lose
    BY <2>1 DEF Lose, Kept, Turn
  <2>2. ASSUME NEW d \in on, Act(d) PROVE Kept
    <3>1. CASE \/ StartCall(d) \/ AcceptCall(d) \/ RejectCall(d) \/ Hangup(d) \/ Dismiss(d)
               \/ RingTimeout(d) \/ RepeatOffer(d) \/ RepeatAnswer(d)
      BY <3>1, ButtonsKeep
    <3>2. CASE Receive(d)
      BY <3>2, ReceiveKeeps
    <3>3. CASE \E c \in Ids : Proceed(d, c) \/ Connected(d, c) \/ ConnectionFailed(d, c)
      BY <3>3, ProceedKeeps, ConnectionKeeps
    <3>4. CASE \/ ToggleCamera(d) \/ DisableCamera(d) \/ GotCamera(d)
               \/ StartScreenShare(d) \/ GotScreen(d) \/ StopScreenShare(d)
      BY <3>4, CaptureKeeps
    <3> QED BY <2>2, <3>1, <3>2, <3>3, <3>4 DEF Act
  <2> QED BY <2>1, <2>2 DEF Next
<1>2. Kept => \A d \in Devices : LET s == dev[d]  t == dev'[d] IN
    Straight(t) =>
        /\ Running(s) => t.id = s.id
        /\ s.status = "ended" /\ t.id = s.id => t.status = "ended"
  BY DEF Kept, Turn
<1> QED BY <1>1, <1>2, Invariant, PTL DEF Spec, CallsKept
=============================================================================
