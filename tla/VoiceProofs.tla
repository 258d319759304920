---------------------------- MODULE VoiceProofs ----------------------------
(***************************************************************************)
(* Theorems about Voice, for any devices and any number of joins,          *)
(* disturbances and signals, whatever is lost or overtakes something else. *)
(***************************************************************************)
EXTENDS Voice, TLAPS

(***************************************************************************)
(* The inductive invariant.                                                *)
(***************************************************************************)
\* What a device knows or is connected to, and its own session, have begun, where b
\* sessions have; its microphones are those of its joins.
Begun(x, b) ==
    /\ x.self <= b /\ x.known \subseteq 1..b
    /\ \A s \in Sessions : x.peer[s].at # "none" => s <= b
    /\ x.mics <= b

\* In the channel there is a microphone, and just one unless joins overlapped or one
\* ended in a call; out of the channel there is nothing else either.
Audible(x) ==
    /\ Here(x) => x.mics >= 1 /\ x.signedIn /\ (x.mics = 1 \/ x.crossed)
    /\ ~Here(x) => /\ \A s \in Sessions : x.peer[s].at = "none"
                   /\ x.mics = 0 \/ x.crossed

\* The camera that is shown is held, a stream that is held captures in the channel and
\* is shown unless joins overlapped, and no other captures unless one was forgotten.
Filming(x) ==
    /\ x.camera => x.held
    /\ x.held => Here(x) /\ x.cameras >= 1 /\ (x.camera \/ x.crossed)
    /\ ~x.doubled => x.cameras = IF x.held THEN 1 ELSE 0

\* Offers go to sessions that are listed, and to younger ones unless the own
\* session was replaced.
OffersDown(x) == \A s \in Sessions : x.peer[s].at \in {"new", "offered"} =>
    s \in x.known /\ (x.self < s \/ x.crossed)

DeviceOK(x, b) == x \in Device /\ Begun(x, b) /\ Audible(x) /\ Filming(x) /\ OffersDown(x)

\* A session has one device, a signal is of a session that has begun.
SessionsApart == \A d, e \in Devices : Here(dev[d]) /\ dev[d].self = dev[e].self => d = e

SignalsBegun == net \subseteq Signal /\ \A m \in net : m.from <= begun

IInv ==
    /\ scene \in Scenes /\ trouble \in 0..scene.trouble
    /\ begun \in 0..MaxSessions
    /\ dev \in [Devices -> Device] /\ \A d \in Devices : DeviceOK(dev[d], begun)
    /\ SessionsApart /\ SignalsBegun

(***************************************************************************)
(* Operations on one device.                                               *)
(***************************************************************************)
Ats == {"none", "new", "offered", "answering", "stable", "up", "broken"}
Peers == [Sessions -> [at : Ats, n : {0, 1}]]

\* The camera is left alone.
SameCamera(x, y) ==
    /\ y.camera = x.camera /\ y.held = x.held
    /\ y.cameras = x.cameras /\ y.doubled = x.doubled

\* Whoever stays in the channel may keep the camera as it is.
LEMMA FilmingKept ==
  ASSUME NEW x, NEW y, Filming(x), SameCamera(x, y), Here(x) => Here(y), x.crossed => y.crossed
  PROVE  Filming(y)
BY DEF Filming, SameCamera

\* A device that only changes what it knows and its connections stays well formed.
LEMMA ConnectionsOK ==
  ASSUME NEW b \in 0..MaxSessions, NEW x, DeviceOK(x, b), NEW y \in Device,
         y.self = x.self, y.mics = x.mics, SameCamera(x, y), y.signedIn = x.signedIn,
         y.crossed = x.crossed, y.known \subseteq 1..b,
         \A s \in Sessions : y.peer[s].at # "none" => s <= b /\ Here(x),
         OffersDown(y)
  PROVE  DeviceOK(y, b)
<1>1. Filming(y)
  BY FilmingKept DEF DeviceOK, Here
<1> QED BY <1>1 DEF DeviceOK, Begun, Audible, Here

\* A connection that is closed is no longer offered.
LEMMA ClosePeerOK ==
  ASSUME NEW b \in 0..MaxSessions, NEW x, DeviceOK(x, b), NEW s \in Sessions
  PROVE  /\ DeviceOK(ClosePeer(x, s), b)
         /\ ClosePeer(x, s).self = x.self /\ ClosePeer(x, s).known = x.known
         /\ ClosePeer(x, s).peer[s].at = "none"
<1> DEFINE y == ClosePeer(x, s)
<1>1. x \in Device /\ x.peer \in Peers
  BY DEF DeviceOK, Device, Peers, Ats
<1>2. /\ y \in Device
      /\ y.self = x.self /\ y.mics = x.mics /\ SameCamera(x, y) /\ y.signedIn = x.signedIn
      /\ y.crossed = x.crossed /\ y.known = x.known
  BY <1>1 DEF ClosePeer, Device, Peers, Ats, SameCamera
<1>3. \A t \in Sessions : y.peer[t].at = IF t = s THEN "none" ELSE x.peer[t].at
  BY <1>1 DEF ClosePeer, Device, Peers
<1> HIDE DEF y
<1>4. OffersDown(y)
  BY <1>2, <1>3 DEF DeviceOK, OffersDown
<1>5. \A t \in Sessions : y.peer[t].at # "none" => t <= b /\ Here(x)
  BY <1>3 DEF DeviceOK, Begun, Audible
<1>6. y.known \subseteq 1..b
  BY <1>2 DEF DeviceOK, Begun
<1>7. DeviceOK(y, b)
  BY <1>2, <1>4, <1>5, <1>6, ConnectionsOK
<1> QED BY <1>2, <1>3, <1>7 DEF y

\* Who hears of listed sessions offers to the younger ones.
LEMMA MaybeConnectOK ==
  ASSUME NEW b \in 0..MaxSessions, NEW x, DeviceOK(x, b), NEW S \in SUBSET x.known
  PROVE  DeviceOK(MaybeConnect(x, S), b) /\ MaybeConnect(x, S).self = x.self
<1> DEFINE y == MaybeConnect(x, S)
           New(s) == Here(x) /\ s \in S /\ x.self < s /\ x.peer[s].at = "none"
<1>1. x \in Device /\ x.peer \in Peers /\ S \subseteq 1..b /\ b <= MaxSessions
  BY VoiceAssumption DEF DeviceOK, Device, Peers, Ats, Begun
<1>2. y = [x EXCEPT !.peer = [s \in Sessions |-> IF New(s) THEN [at |-> "new", n |-> 1 - x.peer[s].n]
                                                 ELSE x.peer[s]]]
  BY <1>1 DEF MaybeConnect, Device
<1> HIDE DEF New
<1>3. \A s \in Sessions : 1 - x.peer[s].n \in {0, 1}
  BY <1>1 DEF Peers
<1>4. [s \in Sessions |-> IF New(s) THEN [at |-> "new", n |-> 1 - x.peer[s].n] ELSE x.peer[s]] \in Peers
  BY <1>1, <1>3 DEF Peers, Ats
<1>5. /\ y \in Device
      /\ y.self = x.self /\ y.mics = x.mics /\ SameCamera(x, y) /\ y.signedIn = x.signedIn
      /\ y.crossed = x.crossed /\ y.known = x.known
      /\ y.peer = [s \in Sessions |-> IF New(s) THEN [at |-> "new", n |-> 1 - x.peer[s].n] ELSE x.peer[s]]
  BY <1>1, <1>2, <1>4 DEF Device, Peers, Ats, SameCamera
<1> HIDE DEF y
<1>6. \A s \in Sessions : y.peer[s].at = IF New(s) THEN "new" ELSE x.peer[s].at
  BY <1>5
<1>7. OffersDown(y)
  BY <1>5, <1>6 DEF DeviceOK, OffersDown, New
<1>8. \A s \in Sessions : y.peer[s].at # "none" => s <= b /\ Here(x)
  <2>1. \A s \in Sessions : New(s) => s <= b /\ Here(x)
    BY <1>1 DEF New
  <2>2. \A s \in Sessions : x.peer[s].at # "none" => s <= b /\ Here(x)
    BY DEF DeviceOK, Begun, Audible
  <2> QED BY <1>6, <2>1, <2>2
<1>9. y.known \subseteq 1..b
  BY <1>5 DEF DeviceOK, Begun
<1> QED BY <1>5, <1>7, <1>8, <1>9, ConnectionsOK DEF y

\* Stopping the camera that is held leaves none that is, and nothing else changes.
LEMMA StoppedOK ==
  ASSUME NEW x \in Device, Filming(x)
  PROVE  LET y == Stopped(x)
         IN  /\ y \in Device /\ Filming(y) /\ ~y.held /\ ~y.camera
             /\ y.self = x.self /\ y.known = x.known /\ y.peer = x.peer /\ y.mics = x.mics
             /\ y.crossed = x.crossed /\ y.signedIn = x.signedIn /\ y.doubled = x.doubled
             /\ y.cameras = IF x.held THEN x.cameras - 1 ELSE x.cameras
<1> DEFINE y == Stopped(x)
           n == IF x.held THEN x.cameras - 1 ELSE x.cameras
<1>1. n \in Nat /\ (~x.doubled => n = 0)
  BY DEF Device, Filming
<1>2. /\ y \in Device /\ ~y.held /\ ~y.camera
      /\ y.self = x.self /\ y.known = x.known /\ y.peer = x.peer /\ y.mics = x.mics
      /\ y.crossed = x.crossed /\ y.signedIn = x.signedIn /\ y.doubled = x.doubled
      /\ y.cameras = n
  BY <1>1 DEF Stopped, Device
<1> HIDE DEF y, n
<1>3. Filming(y)
  BY <1>1, <1>2 DEF Filming
<1> QED BY <1>2, <1>3 DEF y, n

\* Whoever leaves has no connection and no camera any more, and one microphone less.
LEMMA LeftOK ==
  ASSUME NEW b \in 0..MaxSessions, NEW x, DeviceOK(x, b), Here(x)
  PROVE  DeviceOK(Left(x), b) /\ Left(x).self = None
<1> DEFINE p == [s \in Sessions |-> [x.peer[s] EXCEPT !.at = "none"]]
           f == x.failing \cup {s \in Sessions : x.peer[s].at \in {"new", "answering"}}
           c == [x EXCEPT !.peer = p, !.failing = f]
           w == Stopped(c)
           y == [w EXCEPT !.known = @ \ {x.self}, !.self = None, !.mics = @ - 1]
<1>1. x \in Device /\ x.peer \in Peers /\ x.mics \in 0..MaxSessions /\ x.mics >= 1 /\ MaxSessions \in Nat
  BY VoiceAssumption DEF DeviceOK, Device, Peers, Ats, Audible
<1>2. Left(x) = y
  BY DEF Left, Closed
<1>3. p \in Peers /\ \A s \in Sessions : p[s].at = "none"
  BY <1>1 DEF Peers, Ats
<1>4. f \in SUBSET Sessions
  BY <1>1 DEF Device
<1> HIDE DEF p, f
<1>5. /\ c \in Device /\ c.peer = p /\ c.mics = x.mics /\ c.signedIn = x.signedIn /\ c.crossed = x.crossed
      /\ c.known = x.known /\ c.self = x.self /\ SameCamera(x, c)
  BY <1>1, <1>3, <1>4 DEF Device, Peers, Ats, SameCamera
<1> HIDE DEF c
<1>6. Filming(c)
  BY <1>5, FilmingKept DEF DeviceOK, Here
<1>7. /\ w \in Device /\ w.peer = p /\ w.mics = x.mics /\ w.signedIn = x.signedIn /\ w.crossed = x.crossed
      /\ w.known = x.known /\ Filming(w) /\ ~w.held
  BY <1>5, <1>6, StoppedOK
<1>8. x.mics - 1 \in 0..MaxSessions /\ None \in Sessions \cup {None}
  BY <1>1
<1> HIDE DEF w
<1>9. /\ y \in Device /\ y.peer = p /\ y.mics = x.mics - 1 /\ y.signedIn = x.signedIn /\ y.crossed = x.crossed
      /\ y.known = x.known \ {x.self} /\ y.self = None /\ SameCamera(w, y)
  BY <1>7, <1>8 DEF Device, SameCamera
<1> HIDE DEF y
<1>10. Begun(y, b)
  BY <1>1, <1>3, <1>9 DEF DeviceOK, Begun, None
<1>11. Audible(y)
  BY <1>1, <1>3, <1>9 DEF DeviceOK, Audible, Here
<1>12. OffersDown(y)
  BY <1>3, <1>9 DEF OffersDown
<1>13. Filming(y)
  BY <1>7, <1>9 DEF Filming, SameCamera
<1> QED BY <1>2, <1>9, <1>10, <1>11, <1>12, <1>13 DEF DeviceOK

\* A device that has just been loaded.
LEMMA AwayOK == \A b \in 0..MaxSessions : DeviceOK(Away, b) /\ ~Here(Away)
<1>1. Away \in Device
  BY VoiceAssumption DEF Away, Device, NoPeer, Sessions, None, AtOnce
<1>2. /\ Away.self = None /\ Away.known = {} /\ Away.mics = 0
      /\ Away.camera = FALSE /\ Away.held = FALSE /\ Away.cameras = 0
      /\ \A s \in Sessions : Away.peer[s].at = "none"
  BY DEF Away, NoPeer
<1> QED BY <1>1, <1>2 DEF DeviceOK, Begun, Audible, Filming, OffersDown, Here, None

\* What is sent is of the session it is sent for.
LEMMA SentOK ==
  ASSUME NEW b \in 0..MaxSessions, NEW N, N \subseteq Signal, \A m \in N : m.from <= b,
         NEW d \in Devices, NEW t \in {"join", "here", "leave", "offer", "answer"},
         NEW s \in Sessions, s <= b, NEW u \in Sessions \cup {None}, NEW n \in {0, 1}
  PROVE  /\ Sent(N, d, t, s, u, n) \subseteq Signal
         /\ \A m \in Sent(N, d, t, s, u, n) : m.from <= b
<1> DEFINE A == [to : Devices \ {d}, t : {t}, from : {s}, for : {u}, n : {n}]
<1>1. A \subseteq Signal /\ \A m \in A : m.from <= b
  BY DEF Signal
<1>2. Sent(N, d, t, s, u, n) \subseteq N \cup A
  BY DEF Sent
<1> QED BY <1>1, <1>2

(***************************************************************************)
(* One device changes.                                                     *)
(***************************************************************************)
\* A device that only uses its camera, calls, signs in or waits for a microphone.
LEMMA ButtonsOK ==
  ASSUME NEW b \in 0..MaxSessions, NEW x, DeviceOK(x, b), NEW y \in Device,
         y.self = x.self, y.known = x.known, y.peer = x.peer, y.mics = x.mics, y.crossed = x.crossed,
         Here(x) => y.signedIn, Filming(y)
  PROVE  DeviceOK(y, b)
BY DEF DeviceOK, Begun, Audible, OffersDown, Here

\* What a device knows when b sessions have begun is no less true when c have.
LEMMA LaterOK ==
  ASSUME NEW b \in 0..MaxSessions, NEW c \in b..MaxSessions, NEW x, DeviceOK(x, b)
  PROVE  DeviceOK(x, c)
<1>1. MaxSessions \in Nat /\ x.self \in Int /\ x.mics \in Int
  BY VoiceAssumption DEF DeviceOK, Device, Sessions, None
<1>2. Begun(x, c)
  BY <1>1 DEF DeviceOK, Begun, Sessions
<1> QED BY <1>2 DEF DeviceOK

\* One device changes and keeps its session, leaves, or begins the next one.
LEMMA SetOK ==
  ASSUME IInv, NEW d \in Devices, NEW y, Set(d, y), DeviceOK(y, begun'),
         begun' \in begun..MaxSessions,
         y.self \in {dev[d].self, None} \/ (y.self = begun' /\ begun' = begun + 1),
         trouble' \in 0..scene.trouble, SignalsBegun'
  PROVE  IInv'
<1>1. begun \in 0..MaxSessions /\ begun' \in 0..MaxSessions
  BY VoiceAssumption DEF IInv
<1>2. dev' \in [Devices -> Device] /\ \A e \in Devices : dev'[e] = IF e = d THEN y ELSE dev[e]
  BY DEF IInv, Set, DeviceOK
<1>3. \A e \in Devices : DeviceOK(dev[e], begun')
  BY <1>1, LaterOK DEF IInv
<1>4. \A e \in Devices : DeviceOK(dev'[e], begun')
  BY <1>2, <1>3
<1>5. \A e \in Devices : dev[e].self <= begun
  BY DEF IInv, DeviceOK, Begun
<1>6. \A e \in Devices : e # d /\ Here(y) => y.self # dev[e].self
  <2> SUFFICES ASSUME NEW e \in Devices, e # d, Here(y), y.self = dev[e].self
               PROVE  FALSE
    OBVIOUS
  <2>1. CASE y.self = dev[d].self
    <3>1. SessionsApart
      BY DEF IInv
    <3> QED BY <2>1, <3>1 DEF SessionsApart, Here
  <2>2. CASE y.self = begun' /\ begun' = begun + 1
    <3>1. begun \in Nat
      BY <1>1, VoiceAssumption
    <3>2. dev[e].self <= begun
      BY <1>5
    <3>3. dev[e].self = begun + 1
      BY <2>2
    <3> QED BY <3>1, <3>2, <3>3
  <2> QED BY <2>1, <2>2 DEF Here
<1>7. SessionsApart'
  <2> SUFFICES ASSUME NEW e \in Devices, NEW f \in Devices, Here(dev'[e]), dev'[e].self = dev'[f].self
               PROVE  e = f
    BY DEF SessionsApart, Here
  <2> QED BY <1>2, <1>6 DEF IInv, SessionsApart, Here
<1>8. scene' = scene /\ scene' \in Scenes
  BY DEF Set, IInv
<1> QED BY <1>1, <1>2, <1>4, <1>7, <1>8 DEF IInv

\* The same when nothing begins and only what is known, connected or pressed changes.
LEMMA QuietOK ==
  ASSUME IInv, NEW d \in Devices, NEW y, Set(d, y), DeviceOK(y, begun), begun' = begun,
         y.self \in {dev[d].self, None}, trouble' = trouble \/ Disturb, SignalsBegun'
  PROVE  IInv'
<1>1. begun \in 0..MaxSessions /\ begun' \in begun..MaxSessions
  BY VoiceAssumption DEF IInv
<1>2. trouble' \in 0..scene.trouble
  BY VoiceAssumption DEF IInv, Disturb
<1> QED BY <1>1, <1>2, SetOK

\* What goes out is of the device's own session.
LEMMA TellOK ==
  ASSUME IInv, NEW N, N \subseteq net, NEW d \in Devices, Here(dev[d]),
         NEW t \in {"join", "here", "leave", "offer", "answer"}
  PROVE  /\ Tell(N, d, t) \subseteq Signal
         /\ \A m \in Tell(N, d, t) : m.from <= begun
<1>1. dev[d].self \in Sessions /\ dev[d].self <= begun /\ begun \in 0..MaxSessions
  BY DEF IInv, DeviceOK, Device, Begun, Here
<1>2. N \subseteq Signal /\ \A m \in N : m.from <= begun
  BY DEF IInv, SignalsBegun
<1> QED BY <1>1, <1>2, SentOK DEF Tell

\* What every device is before a step, and which signals stay.
LEMMA BeforeStep ==
  ASSUME IInv
  PROVE  /\ begun \in 0..MaxSessions
         /\ \A d \in Devices : DeviceOK(dev[d], begun) /\ dev[d] \in Device
         /\ net' \subseteq net /\ begun' = begun => SignalsBegun'
BY DEF IInv, DeviceOK, SignalsBegun

(***************************************************************************)
(* Joining and leaving.                                                    *)
(***************************************************************************)
\* The join button: a microphone is asked for.
LEMMA JoinVoiceOK == ASSUME IInv, NEW d \in Devices, JoinVoice(d) PROVE IInv'
<1> DEFINE x == dev[d]
           y == [x EXCEPT !.joining = @ + 1]
<1>1. DeviceOK(x, begun) /\ x \in Device /\ begun \in 0..MaxSessions /\ SignalsBegun'
  BY BeforeStep DEF JoinVoice
<1>2. Set(d, y) /\ begun' = begun /\ (trouble' = trouble \/ Disturb) /\ x.signedIn
      /\ (x.joining = 0 \/ x.joining < AtOnce)
  BY DEF JoinVoice
<1> HIDE DEF x
<1>3. x.joining + 1 \in 0..AtOnce
  BY <1>1, <1>2 DEF Device, AtOnce
<1>4. /\ y \in Device /\ y.self = x.self /\ y.known = x.known /\ y.peer = x.peer /\ y.mics = x.mics
      /\ y.crossed = x.crossed /\ SameCamera(x, y) /\ y.signedIn = x.signedIn
  BY <1>1, <1>3 DEF Device, SameCamera
<1>5. DeviceOK(y, begun)
  <2>1. Filming(y)
    BY <1>1, <1>4, FilmingKept DEF DeviceOK, Here
  <2> QED BY <1>1, <1>2, <1>4, <2>1, ButtonsOK
<1> QED BY <1>1, <1>2, <1>4, <1>5, QuietOK DEF x

\* The microphone was refused.
LEMMA NotJoinedOK == ASSUME IInv, NEW d \in Devices, NotJoined(d) PROVE IInv'
<1> DEFINE x == dev[d]
           y == [x EXCEPT !.joining = @ - 1]
<1>1. DeviceOK(x, begun) /\ x \in Device /\ begun \in 0..MaxSessions /\ SignalsBegun'
  BY BeforeStep DEF NotJoined
<1>2. Set(d, y) /\ begun' = begun /\ trouble' = trouble /\ x.joining > 0
  BY DEF NotJoined
<1> HIDE DEF x
<1>3. DeviceOK(y, begun) /\ y.self = x.self
  <2>1. x.joining - 1 \in 0..AtOnce
    BY <1>1, <1>2 DEF Device, AtOnce
  <2>2. /\ y \in Device /\ y.self = x.self /\ y.known = x.known /\ y.peer = x.peer /\ y.mics = x.mics
        /\ y.crossed = x.crossed /\ SameCamera(x, y) /\ y.signedIn = x.signedIn
    BY <1>1, <2>1 DEF Device, SameCamera
  <2>3. (Here(x) => y.signedIn) /\ Filming(y)
    BY <1>1, <2>2, FilmingKept DEF DeviceOK, Audible, Here
  <2> QED BY <1>1, <2>2, <2>3, ButtonsOK
<1> QED BY <1>1, <1>2, <1>3, QuietOK DEF x

\* The microphone is there: a new session begins, or the device signed out meanwhile.
LEMMA JoinedOK == ASSUME IInv, NEW d \in Devices, Joined(d) PROVE IInv'
<1> DEFINE x == dev[d]
           z == [x EXCEPT !.joining = @ - 1]
           b == begun + 1
           y == [x EXCEPT !.joining = @ - 1, !.mics = @ + 1, !.self = b,
                          !.known = @ \cup {b}, !.camera = FALSE,
                          !.crossed = @ \/ Here(x) \/ x.calling]
<1>1. DeviceOK(x, begun) /\ x \in Device /\ begun \in 0..MaxSessions
  BY BeforeStep
<1>2. x.joining > 0 /\ trouble' = trouble
  BY DEF Joined
<1>3. CASE ~x.signedIn
  <2>1. Set(d, z) /\ begun' = begun /\ net' = net
    BY <1>3 DEF Joined
  <2>2. SignalsBegun'
    BY <2>1, BeforeStep
  <2> HIDE DEF x
  <2>3. x.joining - 1 \in 0..AtOnce
    BY <1>1, <1>2 DEF Device, AtOnce
  <2>4. /\ z \in Device /\ z.self = x.self /\ z.known = x.known /\ z.peer = x.peer /\ z.mics = x.mics
        /\ z.crossed = x.crossed /\ SameCamera(x, z) /\ z.signedIn = x.signedIn
    BY <1>1, <2>3 DEF Device, SameCamera
  <2>5. (Here(x) => z.signedIn) /\ Filming(z)
    BY <1>1, <2>4, FilmingKept DEF DeviceOK, Audible, Here
  <2>6. DeviceOK(z, begun)
    BY <1>1, <2>4, <2>5, ButtonsOK
  <2> QED BY <1>2, <2>1, <2>2, <2>4, <2>6, QuietOK DEF x
<1>4. CASE x.signedIn
  <2>1. begun < MaxSessions /\ begun' = b /\ Set(d, y) /\ net' = Sent(net, d, "join", b, None, 0)
    BY <1>4 DEF Joined
  <2>2. begun \in Nat /\ b \in Sessions /\ b \in 0..MaxSessions /\ begun' \in begun..MaxSessions /\ begun <= b
    BY <1>1, <2>1, VoiceAssumption DEF Sessions
  <2>3. SignalsBegun'
    <3>1. net \subseteq Signal /\ \A m \in net : m.from <= begun
      BY DEF IInv, SignalsBegun
    <3>2. \A m \in net : m.from <= b
      BY <3>1, <2>2 DEF Signal, Sessions
    <3> HIDE DEF b
    <3>3. b \in 0..MaxSessions /\ b \in Sessions /\ b <= b /\ None \in Sessions \cup {None} /\ 0 \in {0, 1}
          /\ "join" \in {"join", "here", "leave", "offer", "answer"}
      BY <2>2 DEF Sessions
    <3>4. /\ Sent(net, d, "join", b, None, 0) \subseteq Signal
          /\ \A m \in Sent(net, d, "join", b, None, 0) : m.from <= b
      BY <3>1, <3>2, <3>3, SentOK
    <3> QED BY <2>1, <3>4 DEF SignalsBegun
  <2> HIDE DEF x, b
  <2>4. x.joining - 1 \in 0..AtOnce /\ x.mics + 1 \in 0..MaxSessions /\ x.mics \in Nat /\ x.mics + 1 <= b
    BY <1>1, <1>2, <2>1, <2>2, VoiceAssumption DEF Device, DeviceOK, Begun, AtOnce, b
  <2>5. x.crossed \in BOOLEAN /\ x.calling \in BOOLEAN
    BY <1>1 DEF Device
  <2>6. /\ y \in Device /\ y.self = b /\ y.known = x.known \cup {b} /\ y.peer = x.peer /\ y.mics = x.mics + 1
        /\ y.crossed = (x.crossed \/ Here(x) \/ x.calling) /\ y.signedIn = x.signedIn
        /\ y.camera = FALSE /\ y.held = x.held /\ y.cameras = x.cameras /\ y.doubled = x.doubled
    BY <1>1, <2>2, <2>4, <2>5 DEF Device
  <2>7. b # None
    BY <2>2 DEF Sessions, None
  <2> HIDE DEF y
  <2>8. DeviceOK(x, b)
    BY <1>1, <2>1, <2>2, LaterOK
  <2>9. Begun(y, b)
    BY <2>2, <2>4, <2>6, <2>8 DEF DeviceOK, Begun, Sessions
  <2>10. Audible(y)
    <3>1. Here(y) /\ y.signedIn /\ y.mics >= 1
      BY <1>4, <2>4, <2>6, <2>7 DEF Here
    <3>2. x.mics = 0 \/ y.crossed
      BY <2>6, <2>8 DEF DeviceOK, Audible
    <3>3. y.mics = 1 \/ y.crossed
      BY <2>6, <3>2
    <3> QED BY <3>1, <3>3 DEF Audible
  <2>11. OffersDown(y)
    <3>1. Here(x) => y.crossed
      BY <2>6
    <3>2. \A s \in Sessions : y.peer[s].at \in {"new", "offered"} => Here(x) /\ s \in y.known
      BY <2>6, <2>8 DEF DeviceOK, Audible, OffersDown
    <3> QED BY <3>1, <3>2 DEF OffersDown
  <2>12. Filming(y)
    BY <1>1, <2>6, <2>7 DEF DeviceOK, Filming, Here
  <2>13. DeviceOK(y, b)
    BY <2>6, <2>9, <2>10, <2>11, <2>12 DEF DeviceOK
  <2> QED BY <1>2, <2>1, <2>2, <2>3, <2>6, <2>13, SetOK DEF IInv, x, b
<1> QED BY <1>1, <1>3, <1>4 DEF Device

\* After its join signal the device offers to those it already knows.
LEMMA AfterJoinOK == ASSUME IInv, NEW d \in Devices, AfterJoin(d) PROVE IInv'
<1> DEFINE y == MaybeConnect(dev[d], dev[d].known)
<1>1. DeviceOK(dev[d], begun) /\ begun \in 0..MaxSessions /\ SignalsBegun'
  BY BeforeStep DEF AfterJoin
<1>2. DeviceOK(y, begun) /\ y.self = dev[d].self
  BY <1>1, MaybeConnectOK
<1>3. Set(d, y) /\ begun' = begun /\ trouble' = trouble
  BY DEF AfterJoin
<1> QED BY <1>1, <1>2, <1>3, QuietOK

\* The presence that is repeated.
LEMMA HeartbeatOK == ASSUME IInv, NEW d \in Devices, Heartbeat(d) PROVE IInv'
<1> DEFINE y == MaybeConnect(dev[d], dev[d].known)
<1>1. DeviceOK(dev[d], begun) /\ begun \in 0..MaxSessions
  BY BeforeStep
<1>2. DeviceOK(y, begun) /\ y.self = dev[d].self
  BY <1>1, MaybeConnectOK
<1>3. Here(dev[d]) /\ Set(d, y) /\ begun' = begun /\ trouble' = trouble /\ net' = Tell(net, d, "here")
  BY DEF Heartbeat
<1>4. SignalsBegun'
  BY <1>3, TellOK DEF SignalsBegun
<1> QED BY <1>1, <1>2, <1>3, <1>4, QuietOK

\* The leave button is only there in the channel.
LEMMA LeaveVoiceOK == ASSUME IInv, NEW d \in Devices, LeaveVoice(d) PROVE IInv'
<1>1. DeviceOK(dev[d], begun) /\ begun \in 0..MaxSessions
  BY BeforeStep
<1>2. /\ Here(dev[d]) /\ Set(d, Left(dev[d])) /\ begun' = begun /\ trouble' = trouble
      /\ net' = Tell(net, d, "leave")
  BY DEF LeaveVoice, Offers, Header, Strip, Overlay
<1>3. DeviceOK(Left(dev[d]), begun) /\ Left(dev[d]).self = None
  BY <1>1, <1>2, LeftOK
<1>4. SignalsBegun'
  BY <1>2, TellOK DEF SignalsBegun
<1> QED BY <1>1, <1>2, <1>3, <1>4, QuietOK

(***************************************************************************)
(* Connections.                                                            *)
(***************************************************************************)
\* A session that is forgotten has no connection any more.
LEMMA ForgetOK ==
  ASSUME NEW b \in 0..MaxSessions, NEW x, DeviceOK(x, b), NEW s \in Sessions
  PROVE  LET y == [ClosePeer(x, s) EXCEPT !.known = @ \ {s}]
         IN  DeviceOK(y, b) /\ y.self = x.self
<1> DEFINE c == ClosePeer(x, s)
           y == [c EXCEPT !.known = @ \ {s}]
<1>1. DeviceOK(c, b) /\ c \in Device /\ c.self = x.self /\ c.peer[s].at = "none"
  BY ClosePeerOK DEF DeviceOK
<1> HIDE DEF c
<1>2. /\ y \in Device /\ y.self = c.self /\ y.mics = c.mics /\ SameCamera(c, y) /\ y.signedIn = c.signedIn
      /\ y.crossed = c.crossed /\ y.peer = c.peer /\ y.known = c.known \ {s}
  BY <1>1 DEF Device, SameCamera
<1> HIDE DEF y
<1>3. OffersDown(y)
  BY <1>1, <1>2 DEF DeviceOK, OffersDown
<1>4. (\A t \in Sessions : y.peer[t].at # "none" => t <= b /\ Here(c)) /\ y.known \subseteq 1..b
  BY <1>1, <1>2 DEF DeviceOK, Begun, Audible
<1>5. DeviceOK(y, b)
  BY <1>1, <1>2, <1>3, <1>4, ConnectionsOK
<1> QED BY <1>1, <1>2, <1>5 DEF y, c

\* One connection of a device in the channel changes; only an offer needs more.
LEMMA PeerOK ==
  ASSUME NEW b \in 0..MaxSessions, NEW x, DeviceOK(x, b), Here(x), NEW s \in Sessions, s <= b,
         NEW y \in Device, NEW p \in Peers, y = [x EXCEPT !.peer = p],
         \A t \in Sessions \ {s} : p[t].at = x.peer[t].at,
         p[s].at \in {"new", "offered"} => s \in x.known /\ (x.self < s \/ x.crossed)
  PROVE  DeviceOK(y, b) /\ y.self = x.self
<1>1. x \in Device
  BY DEF DeviceOK
<1>2. /\ y.self = x.self /\ y.mics = x.mics /\ SameCamera(x, y) /\ y.signedIn = x.signedIn
      /\ y.crossed = x.crossed /\ y.peer = p /\ y.known = x.known
  BY <1>1 DEF Device, SameCamera
<1>3. OffersDown(y)
  BY <1>2 DEF DeviceOK, OffersDown
<1>4. (\A t \in Sessions : y.peer[t].at # "none" => t <= b /\ Here(x)) /\ y.known \subseteq 1..b
  BY <1>2 DEF DeviceOK, Begun
<1> QED BY <1>2, <1>3, <1>4, ConnectionsOK

\* A connection comes to the state a, which is an offer only where one was being made.
LEMMA AtOK ==
  ASSUME NEW b \in 0..MaxSessions, NEW x, DeviceOK(x, b), NEW s \in Sessions, NEW a \in Ats,
         x.peer[s].at # "none", a \in {"new", "offered"} => x.peer[s].at \in {"new", "offered"}
  PROVE  /\ DeviceOK([x EXCEPT !.peer[s].at = a], b)
         /\ [x EXCEPT !.peer[s].at = a].self = x.self
<1> DEFINE y == [x EXCEPT !.peer[s].at = a]
           p == [x.peer EXCEPT ![s].at = a]
<1>1. x \in Device /\ x.peer \in Peers /\ Here(x) /\ s <= b
  BY DEF DeviceOK, Device, Peers, Ats, Begun, Audible
<1>2. /\ p \in Peers /\ (\A t \in Sessions \ {s} : p[t].at = x.peer[t].at) /\ p[s].at = a
  BY <1>1 DEF Peers
<1>3. y = [x EXCEPT !.peer = p]
  BY <1>1 DEF Device
<1> HIDE DEF p
<1>4. y \in Device
  BY <1>1, <1>2, <1>3 DEF Device, Peers, Ats
<1>5. a \in {"new", "offered"} => s \in x.known /\ (x.self < s \/ x.crossed)
  BY DEF DeviceOK, OffersDown
<1> HIDE DEF y
<1> QED BY <1>1, <1>2, <1>3, <1>4, <1>5, PeerOK DEF y

Answering(x, s, n) == [ClosePeer(x, s) EXCEPT !.peer[s] = [at |-> "answering", n |-> n]]

\* An offer that comes replaces the connection there may be.
LEMMA AnsweringOK ==
  ASSUME NEW b \in 0..MaxSessions, NEW x, DeviceOK(x, b), Here(x), NEW s \in Sessions, s <= b, NEW n \in {0, 1}
  PROVE  DeviceOK(Answering(x, s, n), b) /\ Answering(x, s, n).self = x.self
<1> DEFINE c == ClosePeer(x, s)
           p == [c.peer EXCEPT ![s] = [at |-> "answering", n |-> n]]
           y == [c EXCEPT !.peer[s] = [at |-> "answering", n |-> n]]
<1>1. DeviceOK(c, b) /\ c \in Device /\ c.self = x.self
  BY ClosePeerOK DEF DeviceOK
<1> HIDE DEF c
<1>2. c.peer \in Peers /\ Here(c)
  BY <1>1 DEF Device, Peers, Ats, Here
<1>3. p \in Peers /\ (\A t \in Sessions \ {s} : p[t].at = c.peer[t].at) /\ p[s].at = "answering"
  BY <1>2 DEF Peers, Ats
<1>4. y = [c EXCEPT !.peer = p]
  BY <1>1 DEF Device
<1> HIDE DEF p
<1>5. y \in Device
  BY <1>1, <1>3, <1>4 DEF Device, Peers, Ats
<1> HIDE DEF y
<1>6. DeviceOK(y, b) /\ y.self = c.self
  BY <1>1, <1>2, <1>3, <1>4, <1>5, PeerOK
<1> QED BY <1>1, <1>6 DEF y, c, Answering

\* A device that is not heard of any more is forgotten.
LEMMA PruneOK == ASSUME IInv, NEW d \in Devices, NEW s \in Sessions, Prune(d, s) PROVE IInv'
<1> DEFINE y == [ClosePeer(dev[d], s) EXCEPT !.known = @ \ {s}]
<1>1. DeviceOK(dev[d], begun) /\ begun \in 0..MaxSessions /\ SignalsBegun'
  BY BeforeStep DEF Prune
<1>2. Set(d, y) /\ begun' = begun /\ Disturb
  BY DEF Prune
<1>3. DeviceOK(y, begun) /\ y.self = dev[d].self
  BY <1>1, ForgetOK
<1> HIDE DEF y
<1> QED BY <1>1, <1>2, <1>3, QuietOK

\* The offer is made and sent.
LEMMA OfferMadeOK == ASSUME IInv, NEW d \in Devices, NEW s \in Sessions, OfferMade(d, s) PROVE IInv'
<1> DEFINE x == dev[d]
           y == [x EXCEPT !.peer[s].at = "offered"]
<1>1. DeviceOK(x, begun) /\ begun \in 0..MaxSessions /\ x \in Device
  BY BeforeStep
<1>2. /\ Set(d, y) /\ begun' = begun /\ trouble' = trouble /\ x.peer[s].at = "new" /\ Here(x)
      /\ net' = Sent(net, d, "offer", x.self, s, x.peer[s].n)
  BY DEF OfferMade
<1> HIDE DEF x
<1>3. DeviceOK(y, begun) /\ y.self = x.self
  BY <1>1, <1>2, AtOK DEF Ats
<1>4. x.self \in Sessions /\ x.self <= begun /\ x.peer[s].n \in {0, 1} /\ s \in Sessions \cup {None}
      /\ "offer" \in {"join", "here", "leave", "offer", "answer"}
  BY <1>1, <1>2 DEF Device, DeviceOK, Begun, Here
<1>5. net \subseteq Signal /\ \A m \in net : m.from <= begun
  BY DEF IInv, SignalsBegun
<1>6. /\ Sent(net, d, "offer", x.self, s, x.peer[s].n) \subseteq Signal
      /\ \A m \in Sent(net, d, "offer", x.self, s, x.peer[s].n) : m.from <= begun
  BY <1>1, <1>4, <1>5, SentOK
<1>7. SignalsBegun'
  BY <1>2, <1>6 DEF SignalsBegun
<1> HIDE DEF y
<1> QED BY <1>1, <1>2, <1>3, <1>7, QuietOK DEF x

\* The answer is made and sent.
LEMMA AnswerMadeOK == ASSUME IInv, NEW d \in Devices, NEW s \in Sessions, AnswerMade(d, s) PROVE IInv'
<1> DEFINE x == dev[d]
           y == [x EXCEPT !.peer[s].at = "stable"]
<1>1. DeviceOK(x, begun) /\ begun \in 0..MaxSessions /\ x \in Device
  BY BeforeStep
<1>2. /\ Set(d, y) /\ begun' = begun /\ trouble' = trouble /\ x.peer[s].at = "answering" /\ Here(x)
      /\ net' = Sent(net, d, "answer", x.self, s, x.peer[s].n)
  BY DEF AnswerMade
<1> HIDE DEF x
<1>3. DeviceOK(y, begun) /\ y.self = x.self
  BY <1>1, <1>2, AtOK DEF Ats
<1>4. x.self \in Sessions /\ x.self <= begun /\ x.peer[s].n \in {0, 1} /\ s \in Sessions \cup {None}
      /\ "answer" \in {"join", "here", "leave", "offer", "answer"}
  BY <1>1, <1>2 DEF Device, DeviceOK, Begun, Here
<1>5. net \subseteq Signal /\ \A m \in net : m.from <= begun
  BY DEF IInv, SignalsBegun
<1>6. /\ Sent(net, d, "answer", x.self, s, x.peer[s].n) \subseteq Signal
      /\ \A m \in Sent(net, d, "answer", x.self, s, x.peer[s].n) : m.from <= begun
  BY <1>1, <1>4, <1>5, SentOK
<1>7. SignalsBegun'
  BY <1>2, <1>6 DEF SignalsBegun
<1> HIDE DEF y
<1> QED BY <1>1, <1>2, <1>3, <1>7, QuietOK DEF x

\* A late exception closes what connection there is.
LEMMA ContinuationFailsOK ==
  ASSUME IInv, NEW d \in Devices, NEW s \in Sessions, ContinuationFails(d, s) PROVE IInv'
<1> DEFINE x == dev[d]
           w == [x EXCEPT !.failing = @ \ {s}]
           y == ClosePeer(w, s)
<1>1. DeviceOK(x, begun) /\ begun \in 0..MaxSessions /\ x \in Device /\ SignalsBegun'
  BY BeforeStep DEF ContinuationFails
<1>2. Set(d, y) /\ begun' = begun /\ trouble' = trouble
  BY DEF ContinuationFails
<1> HIDE DEF x
<1>3. /\ w \in Device /\ w.self = x.self /\ w.known = x.known /\ w.peer = x.peer /\ w.mics = x.mics
      /\ w.crossed = x.crossed /\ SameCamera(x, w) /\ w.signedIn = x.signedIn
  BY <1>1 DEF Device, SameCamera
<1> HIDE DEF w
<1>4. (Here(x) => w.signedIn) /\ Filming(w)
  BY <1>1, <1>3, FilmingKept DEF DeviceOK, Audible, Here
<1>5. DeviceOK(w, begun)
  BY <1>1, <1>3, <1>4, ButtonsOK
<1>6. DeviceOK(y, begun) /\ y.self = x.self
  BY <1>1, <1>3, <1>5, ClosePeerOK
<1> HIDE DEF y
<1> QED BY <1>1, <1>2, <1>6, QuietOK DEF x

\* The two ends of a connection find each other.
LEMMA ConnectedOK == ASSUME IInv, NEW d \in Devices, NEW s \in Sessions, Connected(d, s) PROVE IInv'
<1> DEFINE y == [dev[d] EXCEPT !.peer[s].at = "up"]
<1>1. DeviceOK(dev[d], begun) /\ begun \in 0..MaxSessions /\ SignalsBegun'
  BY BeforeStep DEF Connected
<1>2. Set(d, y) /\ begun' = begun /\ trouble' = trouble /\ dev[d].peer[s].at = "stable"
  BY DEF Connected
<1>3. DeviceOK(y, begun) /\ y.self = dev[d].self
  BY <1>1, <1>2, AtOK DEF Ats
<1> HIDE DEF y
<1> QED BY <1>1, <1>2, <1>3, QuietOK

\* A connection that fails is closed.
LEMMA ConnectionFailedOK ==
  ASSUME IInv, NEW d \in Devices, NEW s \in Sessions, ConnectionFailed(d, s) PROVE IInv'
<1>1. DeviceOK(dev[d], begun) /\ begun \in 0..MaxSessions /\ SignalsBegun'
  BY BeforeStep DEF ConnectionFailed
<1>2. Set(d, ClosePeer(dev[d], s)) /\ begun' = begun /\ Disturb
  BY DEF ConnectionFailed
<1>3. DeviceOK(ClosePeer(dev[d], s), begun) /\ ClosePeer(dev[d], s).self = dev[d].self
  BY <1>1, ClosePeerOK
<1> QED BY <1>1, <1>2, <1>3, QuietOK

(***************************************************************************)
(* Signals.                                                                *)
(***************************************************************************)
\* A signal that arrives is of a session that began, and what stays on its way is too.
LEMMA SignalOK ==
  ASSUME IInv, NEW m \in net
  PROVE  /\ m \in Signal /\ m.from \in Sessions /\ m.from <= begun /\ m.n \in {0, 1}
         /\ net' \subseteq net \ {m} /\ begun' = begun => SignalsBegun'
BY DEF IInv, SignalsBegun, Signal

\* Somebody joins or is there.
LEMMA HandlePresenceOK ==
  ASSUME IInv, NEW d \in Devices, NEW m \in net, HandlePresence(d, m) PROVE IInv'
<1> DEFINE x == dev[d]
           w == [x EXCEPT !.known = @ \cup {m.from}]
           y == MaybeConnect(w, {m.from})
<1>1. DeviceOK(x, begun) /\ begun \in 0..MaxSessions /\ x \in Device
  BY BeforeStep
<1>2. m.from \in Sessions /\ m.from <= begun
  BY SignalOK
<1>3. /\ Set(d, y) /\ begun' = begun /\ trouble' = trouble
      /\ net' = IF m.t = "join" /\ Here(w) THEN Tell(net \ {m}, d, "here") ELSE net \ {m}
  BY DEF HandlePresence
<1>4. Here(w) => Here(x)
  BY <1>1 DEF Device, Here
<1>5. SignalsBegun'
  <2>1. CASE m.t = "join" /\ Here(w)
    <3>1. net' = Tell(net \ {m}, d, "here") /\ Here(dev[d])
      BY <1>3, <1>4, <2>1
    <3>2. net \ {m} \subseteq net /\ "here" \in {"join", "here", "leave", "offer", "answer"}
      OBVIOUS
    <3> QED BY <1>3, <3>1, <3>2, TellOK DEF SignalsBegun
  <2>2. CASE ~(m.t = "join" /\ Here(w))
    BY <1>3, <2>2, SignalOK
  <2> QED BY <2>1, <2>2
<1> HIDE DEF x
<1>6. /\ w \in Device /\ w.self = x.self /\ w.mics = x.mics /\ SameCamera(x, w) /\ w.signedIn = x.signedIn
      /\ w.crossed = x.crossed /\ w.peer = x.peer /\ w.known = x.known \cup {m.from}
  BY <1>1, <1>2 DEF Device, SameCamera
<1> HIDE DEF w
<1>7. DeviceOK(w, begun)
  <2>1. OffersDown(w)
    BY <1>1, <1>6 DEF DeviceOK, OffersDown
  <2>2. (\A s \in Sessions : w.peer[s].at # "none" => s <= begun /\ Here(x)) /\ x.known \subseteq 1..begun
    BY <1>1, <1>6 DEF DeviceOK, Begun, Audible
  <2>3. w.known \subseteq 1..begun
    BY <1>1, <1>2, <1>6, <2>2 DEF Sessions
  <2> QED BY <1>1, <1>6, <2>1, <2>2, <2>3, ConnectionsOK
<1>8. {m.from} \in SUBSET w.known
  BY <1>6
<1>9. DeviceOK(y, begun) /\ y.self = x.self
  BY <1>1, <1>6, <1>7, <1>8, MaybeConnectOK
<1> HIDE DEF y
<1> QED BY <1>1, <1>3, <1>5, <1>9, QuietOK DEF x

\* Somebody leaves.
LEMMA HandleLeaveOK ==
  ASSUME IInv, NEW d \in Devices, NEW m \in net, HandleLeave(d, m) PROVE IInv'
<1> DEFINE y == [ClosePeer(dev[d], m.from) EXCEPT !.known = @ \ {m.from}]
<1>1. DeviceOK(dev[d], begun) /\ begun \in 0..MaxSessions /\ m.from \in Sessions
  BY BeforeStep, SignalOK
<1>2. Set(d, y) /\ begun' = begun /\ trouble' = trouble /\ net' = net \ {m}
  BY DEF HandleLeave
<1>3. SignalsBegun'
  BY <1>2, SignalOK
<1>4. DeviceOK(y, begun) /\ y.self = dev[d].self
  BY <1>1, ForgetOK
<1> HIDE DEF y
<1> QED BY <1>1, <1>2, <1>3, <1>4, QuietOK

\* An offer comes.
LEMMA HandleOfferOK ==
  ASSUME IInv, NEW d \in Devices, NEW m \in net, HandleOffer(d, m) PROVE IInv'
<1> DEFINE x == dev[d]
           y == Answering(x, m.from, m.n)
           c == Here(x) /\ m.for = x.self
<1>1. DeviceOK(x, begun) /\ begun \in 0..MaxSessions /\ m.from \in Sessions /\ m.from <= begun /\ m.n \in {0, 1}
  BY BeforeStep, SignalOK
<1>2. Set(d, IF c THEN y ELSE x) /\ begun' = begun /\ trouble' = trouble /\ net' = net \ {m}
  BY DEF HandleOffer, Answering
<1>3. SignalsBegun'
  BY <1>2, SignalOK
<1> HIDE DEF x
<1>4. ASSUME c PROVE DeviceOK(y, begun) /\ y.self = x.self
  <2>1. Here(x)
    BY <1>4
  <2> HIDE DEF c
  <2> QED BY <1>1, <2>1, AnsweringOK
<1> HIDE DEF y, c
<1>5. CASE c
  BY <1>1, <1>2, <1>3, <1>4, <1>5, QuietOK DEF x
<1>6. CASE ~c
  BY <1>1, <1>2, <1>3, <1>6, QuietOK DEF x
<1> QED BY <1>5, <1>6

\* An answer comes.
LEMMA HandleAnswerOK ==
  ASSUME IInv, NEW d \in Devices, NEW m \in net, HandleAnswer(d, m) PROVE IInv'
<1> DEFINE x == dev[d]
           a == IF x.peer[m.from].at = "offered" /\ x.peer[m.from].n = m.n THEN "stable" ELSE "broken"
           y == [x EXCEPT !.peer[m.from].at = a]
           c == Here(x) /\ m.for = x.self /\ x.peer[m.from].at = "offered"
<1>1. /\ DeviceOK(x, begun) /\ begun \in 0..MaxSessions /\ x \in Device
      /\ m.from \in Sessions /\ m.from <= begun /\ m.n \in {0, 1}
  BY BeforeStep, SignalOK
<1>2. Set(d, IF c THEN y ELSE x) /\ begun' = begun /\ trouble' = trouble /\ net' = net \ {m}
  BY <1>1 DEF HandleAnswer, Device
<1>3. SignalsBegun'
  BY <1>2, SignalOK
<1> HIDE DEF x
<1>4. a \in Ats /\ a \notin {"new", "offered"}
  BY DEF Ats
<1> HIDE DEF a
<1>5. c => DeviceOK(y, begun) /\ y.self = x.self
  BY <1>1, <1>4, AtOK
<1> HIDE DEF y, c
<1>6. CASE c
  BY <1>1, <1>2, <1>3, <1>5, <1>6, QuietOK DEF x
<1>7. CASE ~c
  BY <1>1, <1>2, <1>3, <1>7, QuietOK DEF x
<1> QED BY <1>6, <1>7

(***************************************************************************)
(* Camera, calls, signing out and closing the tab.                         *)
(***************************************************************************)
\* A device that only presses buttons.
LEMMA PressOK ==
  ASSUME IInv, NEW d \in Devices, NEW y \in Device, Set(d, y), begun' = begun, net' = net,
         trouble' = trouble \/ Disturb,
         y.self = dev[d].self, y.known = dev[d].known, y.peer = dev[d].peer, y.mics = dev[d].mics,
         y.crossed = dev[d].crossed,
         Here(dev[d]) => y.signedIn, Filming(y)
  PROVE  IInv'
<1>1. DeviceOK(dev[d], begun) /\ begun \in 0..MaxSessions /\ SignalsBegun'
  BY BeforeStep
<1>2. DeviceOK(y, begun)
  BY <1>1, ButtonsOK
<1> QED BY <1>1, <1>2, QuietOK

\* The camera, the other calls, and signing in.
LEMMA ButtonsPressedOK ==
  ASSUME IInv, NEW d \in Devices,
         \/ StartCamera(d) \/ GotCamera(d) \/ StopCamera(d) \/ CameraEnds(d)
         \/ Call(d) \/ Hangup(d) \/ Login(d)
  PROVE  IInv'
<1> DEFINE x == dev[d]
<1>1. DeviceOK(x, begun) /\ x \in Device /\ Filming(x)
  BY BeforeStep DEF DeviceOK
<1>2. Here(x) => x.signedIn
  BY <1>1 DEF DeviceOK, Audible
<1>3. CASE StartCamera(d)
  <2> DEFINE y == [x EXCEPT !.asking = @ + 1]
  <2>1. Set(d, y) /\ begun' = begun /\ net' = net /\ Disturb /\ x.asking < AtOnce
    BY <1>3 DEF StartCamera
  <2> HIDE DEF x
  <2>2. /\ y \in Device /\ y.self = x.self /\ y.known = x.known /\ y.peer = x.peer /\ y.mics = x.mics
        /\ y.crossed = x.crossed /\ SameCamera(x, y) /\ y.signedIn = x.signedIn
    BY <1>1, <2>1 DEF Device, SameCamera, AtOnce
  <2> HIDE DEF y
  <2>3. Filming(y)
    BY <1>1, <2>2, FilmingKept DEF Here
  <2> QED BY <1>2, <2>1, <2>2, <2>3, PressOK DEF x
<1>4. CASE GotCamera(d)
  <2> DEFINE w == [x EXCEPT !.asking = @ - 1]
             c == w.doubled \/ w.held
             y == [w EXCEPT !.cameras = @ + 1, !.held = TRUE, !.camera = TRUE, !.doubled = c]
  <2>1. begun' = begun /\ net' = net /\ trouble' = trouble /\ x.asking > 0
    BY <1>4 DEF GotCamera
  <2> HIDE DEF x
  <2>2. /\ w \in Device /\ w.self = x.self /\ w.known = x.known /\ w.peer = x.peer /\ w.mics = x.mics
        /\ w.crossed = x.crossed /\ SameCamera(x, w) /\ w.signedIn = x.signedIn
    BY <1>1, <2>1 DEF Device, SameCamera, AtOnce
  <2>3. Set(d, w) \/ (Here(w) /\ Set(d, y))
    BY <1>4 DEF GotCamera, x
  <2> HIDE DEF w
  <2>4. Filming(w)
    BY <1>1, <2>2, FilmingKept DEF Here
  <2>5. c \in BOOLEAN /\ w.cameras \in Nat
    BY <2>2 DEF Device
  <2>6. c <=> (w.doubled \/ w.held)
    OBVIOUS
  <2> HIDE DEF c
  <2>7. /\ y \in Device /\ y.self = w.self /\ y.known = w.known /\ y.peer = w.peer /\ y.mics = w.mics
        /\ y.crossed = w.crossed /\ y.signedIn = w.signedIn
        /\ y.cameras = w.cameras + 1 /\ y.held = TRUE /\ y.camera = TRUE /\ y.doubled = c
    <3> DEFINE n == w.cameras + 1
               v == [w EXCEPT !.cameras = n, !.held = TRUE, !.camera = TRUE]
    <3>1. n \in Nat
      BY <2>5
    <3> HIDE DEF n
    <3>2. /\ v \in Device /\ v.self = w.self /\ v.known = w.known /\ v.peer = w.peer /\ v.mics = w.mics
          /\ v.crossed = w.crossed /\ v.signedIn = w.signedIn
          /\ v.cameras = n /\ v.held = TRUE /\ v.camera = TRUE
      BY <2>2, <3>1 DEF Device
    <3>3. y = [v EXCEPT !.doubled = c]
      BY <2>2 DEF Device, n
    <3> HIDE DEF v, y
    <3> QED BY <2>5, <3>2, <3>3 DEF Device, n
  <2> HIDE DEF y
  <2>8. Here(w) => Filming(y)
    BY <2>4, <2>5, <2>6, <2>7 DEF Filming, Here
  <2>9. CASE Set(d, w)
    BY <1>2, <2>1, <2>2, <2>4, <2>9, PressOK DEF x
  <2>10. CASE Here(w) /\ Set(d, y)
    BY <1>2, <2>1, <2>2, <2>7, <2>8, <2>10, PressOK DEF x
  <2> QED BY <2>3, <2>9, <2>10
<1>5. CASE StopCamera(d)
  <2> DEFINE y == Stopped(x)
  <2>1. Set(d, y) /\ begun' = begun /\ net' = net /\ trouble' = trouble
    BY <1>5 DEF StopCamera
  <2> HIDE DEF x
  <2>2. /\ y \in Device /\ y.self = x.self /\ y.known = x.known /\ y.peer = x.peer /\ y.mics = x.mics
        /\ y.crossed = x.crossed /\ Filming(y) /\ y.signedIn = x.signedIn
    BY <1>1, StoppedOK
  <2> HIDE DEF y
  <2> QED BY <1>2, <2>1, <2>2, PressOK DEF x
<1>6. CASE CameraEnds(d)
  <2> DEFINE w == Stopped(x)
             y == [w EXCEPT !.cameras = @ - 1]
  <2>1. /\ Set(d, w) \/ (w.cameras > 0 /\ Set(d, y))
        /\ begun' = begun /\ net' = net /\ Disturb
    BY <1>6 DEF CameraEnds
  <2> HIDE DEF x
  <2>2. /\ w \in Device /\ w.self = x.self /\ w.known = x.known /\ w.peer = x.peer /\ w.mics = x.mics
        /\ w.crossed = x.crossed /\ Filming(w) /\ ~w.held /\ w.signedIn = x.signedIn
    BY <1>1, StoppedOK
  <2> HIDE DEF w
  <2>3. CASE Set(d, w)
    BY <1>2, <2>1, <2>2, <2>3, PressOK DEF x
  <2>4. CASE w.cameras > 0 /\ Set(d, y)
    <3>1. /\ y \in Device /\ y.self = w.self /\ y.known = w.known /\ y.peer = w.peer /\ y.mics = w.mics
          /\ y.crossed = w.crossed /\ y.signedIn = w.signedIn
          /\ y.held = w.held /\ y.camera = w.camera /\ y.doubled = w.doubled
      BY <2>2, <2>4 DEF Device
    <3> HIDE DEF y
    <3>2. w.doubled
      BY <2>2, <2>4 DEF Filming
    <3>3. Filming(y)
      BY <2>2, <3>1, <3>2 DEF Filming
    <3> QED BY <1>2, <2>1, <2>2, <2>4, <3>1, <3>3, PressOK DEF x
  <2> QED BY <2>1, <2>3, <2>4
<1>7. CASE Call(d)
  <2> DEFINE y == [x EXCEPT !.calling = TRUE]
  <2>1. Set(d, y) /\ begun' = begun /\ net' = net /\ Disturb
    BY <1>7 DEF Call
  <2> HIDE DEF x
  <2>2. /\ y \in Device /\ y.self = x.self /\ y.known = x.known /\ y.peer = x.peer /\ y.mics = x.mics
        /\ y.crossed = x.crossed /\ SameCamera(x, y) /\ y.signedIn = x.signedIn
    BY <1>1 DEF Device, SameCamera
  <2> HIDE DEF y
  <2>3. Filming(y)
    BY <1>1, <2>2, FilmingKept DEF Here
  <2> QED BY <1>2, <2>1, <2>2, <2>3, PressOK DEF x
<1>8. CASE Hangup(d)
  <2> DEFINE y == [x EXCEPT !.calling = FALSE]
  <2>1. Set(d, y) /\ begun' = begun /\ net' = net /\ trouble' = trouble
    BY <1>8 DEF Hangup
  <2> HIDE DEF x
  <2>2. /\ y \in Device /\ y.self = x.self /\ y.known = x.known /\ y.peer = x.peer /\ y.mics = x.mics
        /\ y.crossed = x.crossed /\ SameCamera(x, y) /\ y.signedIn = x.signedIn
    BY <1>1 DEF Device, SameCamera
  <2> HIDE DEF y
  <2>3. Filming(y)
    BY <1>1, <2>2, FilmingKept DEF Here
  <2> QED BY <1>2, <2>1, <2>2, <2>3, PressOK DEF x
<1>9. CASE Login(d)
  <2> DEFINE y == [x EXCEPT !.signedIn = TRUE]
  <2>1. Set(d, y) /\ begun' = begun /\ net' = net /\ trouble' = trouble
    BY <1>9 DEF Login
  <2> HIDE DEF x
  <2>2. /\ y \in Device /\ y.self = x.self /\ y.known = x.known /\ y.peer = x.peer /\ y.mics = x.mics
        /\ y.crossed = x.crossed /\ SameCamera(x, y) /\ y.signedIn = TRUE
    BY <1>1 DEF Device, SameCamera
  <2> HIDE DEF y
  <2>3. Filming(y)
    BY <1>1, <2>2, FilmingKept DEF Here
  <2> QED BY <1>2, <2>1, <2>2, <2>3, PressOK DEF x
<1> QED BY <1>3, <1>4, <1>5, <1>6, <1>7, <1>8, <1>9

\* Signing out leaves the channel.
LEMMA LogoutOK == ASSUME IInv, NEW d \in Devices, Logout(d) PROVE IInv'
<1> DEFINE x == dev[d]
           w == IF Here(x) THEN Left(x) ELSE x
           y == [w EXCEPT !.signedIn = FALSE]
<1>1. DeviceOK(x, begun) /\ begun \in 0..MaxSessions /\ SignalsBegun'
  BY BeforeStep DEF Logout
<1>2. Set(d, y) /\ begun' = begun /\ Disturb
  BY DEF Logout
<1> HIDE DEF x
<1>3. DeviceOK(w, begun) /\ w \in Device /\ ~Here(w) /\ w.self \in {x.self, None}
  BY <1>1, LeftOK DEF DeviceOK, Here
<1> HIDE DEF w
<1>4. /\ y \in Device /\ y.self = w.self /\ y.known = w.known /\ y.peer = w.peer /\ y.mics = w.mics
      /\ y.crossed = w.crossed /\ SameCamera(w, y)
  BY <1>3 DEF Device, SameCamera
<1> HIDE DEF y
<1>5. Filming(y)
  BY <1>3, <1>4, FilmingKept DEF DeviceOK, Here
<1>6. DeviceOK(y, begun)
  BY <1>1, <1>3, <1>4, <1>5, ButtonsOK
<1> QED BY <1>1, <1>2, <1>3, <1>4, <1>6, QuietOK DEF x

\* The tab is gone.
LEMMA PageHideOK == ASSUME IInv, NEW d \in Devices, PageHide(d) PROVE IInv'
<1>1. begun \in 0..MaxSessions /\ (net' \subseteq net /\ begun' = begun => SignalsBegun')
  BY BeforeStep
<1>2. /\ Set(d, Away) /\ begun' = begun /\ Disturb
      /\ net' = IF Here(dev[d]) THEN Tell(net, d, "leave") ELSE net
  BY DEF PageHide
<1>3. DeviceOK(Away, begun) /\ Away.self = None
  BY <1>1, AwayOK DEF Here
<1>4. SignalsBegun'
  BY <1>1, <1>2, TellOK DEF SignalsBegun
<1> QED BY <1>1, <1>2, <1>3, <1>4, QuietOK

(***************************************************************************)
(* The invariant.                                                          *)
(***************************************************************************)
\* No device has joined yet.
LEMMA InitIInv == Init => IInv
<1> SUFFICES ASSUME Init PROVE IInv
  OBVIOUS
<1>1. scene \in Scenes /\ begun = 0 /\ trouble = 0 /\ dev = [d \in Devices |-> Away] /\ net = {}
  BY DEF Init
<1>2. 0 \in 0..MaxSessions /\ 0 \in 0..scene.trouble
  BY <1>1, VoiceAssumption
<1>3. DeviceOK(Away, 0) /\ Away \in Device /\ ~Here(Away)
  BY <1>2, AwayOK DEF DeviceOK
<1> QED BY <1>1, <1>2, <1>3 DEF IInv, SessionsApart, SignalsBegun

\* Every step keeps it.
LEMMA IInvStep == IInv /\ [Next]_vars => IInv'
<1> SUFFICES ASSUME IInv, [Next]_vars PROVE IInv'
  OBVIOUS
<1>1. CASE UNCHANGED vars
  BY <1>1 DEF vars, IInv, SessionsApart, SignalsBegun, Here
<1>2. CASE Lose
  <2>1. net' \subseteq net /\ scene' = scene /\ begun' = begun /\ trouble' = trouble /\ dev' = dev
    BY <1>2 DEF Lose
  <2>2. SignalsBegun'
    BY <2>1, BeforeStep
  <2> QED BY <2>1, <2>2 DEF IInv, SessionsApart, Here
<1>3. ASSUME NEW d \in Devices, Act(d) PROVE IInv'
  <2>1. CASE JoinVoice(d) \/ Joined(d) \/ NotJoined(d) \/ AfterJoin(d) \/ Heartbeat(d) \/ LeaveVoice(d)
    BY <2>1, JoinVoiceOK, JoinedOK, NotJoinedOK, AfterJoinOK, HeartbeatOK, LeaveVoiceOK
  <2>2. CASE Receive(d)
    BY <2>2, HandlePresenceOK, HandleLeaveOK, HandleOfferOK, HandleAnswerOK DEF Receive
  <2>3. CASE \E s \in Sessions : \/ Prune(d, s) \/ OfferMade(d, s) \/ AnswerMade(d, s)
                                \/ ContinuationFails(d, s) \/ Connected(d, s) \/ ConnectionFailed(d, s)
    BY <2>3, PruneOK, OfferMadeOK, AnswerMadeOK, ContinuationFailsOK, ConnectedOK, ConnectionFailedOK
  <2>4. CASE StartCamera(d) \/ GotCamera(d) \/ StopCamera(d) \/ CameraEnds(d) \/ Call(d) \/ Hangup(d) \/ Login(d)
    BY <2>4, ButtonsPressedOK
  <2>5. CASE Logout(d) \/ PageHide(d)
    BY <2>5, LogoutOK, PageHideOK
  <2> QED BY <1>3, <2>1, <2>2, <2>3, <2>4, <2>5 DEF Act
<1>4. scene.active \subseteq Devices
  BY VoiceAssumption DEF IInv
<1> QED BY <1>1, <1>2, <1>3, <1>4 DEF Next

\* Always: sessions have one device each, signals and connections are of sessions
\* that began, a device in the channel has its microphone, one outside is silent,
\* the camera that captures is the one that is held unless one was forgotten, and
\* offers go from the older session to a younger one that is listed.
THEOREM Invariant == Spec => []IInv
<1> QED BY InitIInv, IInvStep, PTL DEF Spec

\* A device is always well typed, silent out of the channel and out of it when
\* signed out, and shows a camera that captures, however many requests for it
\* overlap: only a second grant in a row, which forgets a stream, or joins that
\* overlapped make an exception (leaveVoice, startVoiceCamera, stopVoiceCamera, the
\* effect on session and voice).
THEOREM VoiceConsistent == Spec => []Consistent
<1>1. IInv => Consistent
  <2> SUFFICES ASSUME IInv PROVE Consistent
    OBVIOUS
  <2>1. \A d \in Devices : DeviceOK(dev[d], begun)
    BY DEF IInv
  <2>2. begun \in Int /\ Sessions \subseteq Int
    BY VoiceAssumption DEF IInv, Sessions
  <2>3. \A d \in Devices : dev[d].known \cup {s \in Sessions : dev[d].peer[s].at # "none"} \subseteq 1..begun
    BY <2>1, <2>2 DEF DeviceOK, Begun, Sessions
  <2>4. TypeOK
    BY <2>3 DEF IInv, TypeOK, SessionsApart, SignalsBegun
  <2>5. OutsideIsSilent
    BY <2>1 DEF OutsideIsSilent, DeviceOK, Audible, Filming
  <2>6. OffIsOff
    BY <2>1 DEF OffIsOff, DeviceOK, Filming
  <2>7. SignedOutIsOut
    BY <2>1 DEF SignedOutIsOut, DeviceOK, Audible
  <2> QED BY <2>4, <2>5, <2>6, <2>7 DEF Consistent
<1> QED BY <1>1, Invariant, PTL

\* Whoever a device offers to is on its list (prune, handleVoiceSignal).
THEOREM VoiceOffersListed == Spec => []OffersListed
<1>1. IInv => OffersListed
  BY DEF IInv, DeviceOK, OffersDown, OffersListed
<1> QED BY <1>1, Invariant, PTL

\* Two devices never offer to each other, whatever signals are lost or overtake
\* each other: of two sessions only the older offers (maybeConnect).
THEOREM VoiceNoGlare == Spec => []NoGlare
<1>1. IInv => NoGlare
  <2> SUFFICES ASSUME IInv, NEW d \in Devices, NEW e \in Devices, Here(dev[d]), Here(dev[e]),
                      ~dev[d].crossed, ~dev[e].crossed,
                      dev[d].peer[dev[e].self].at \in {"new", "offered"},
                      dev[e].peer[dev[d].self].at \in {"new", "offered"}
               PROVE  FALSE
    BY DEF NoGlare
  <2>1. DeviceOK(dev[d], begun) /\ DeviceOK(dev[e], begun)
    BY DEF IInv
  <2>2. dev[d].self \in Sessions /\ dev[e].self \in Sessions
    BY <2>1 DEF DeviceOK, Device, Here
  <2>3. dev[d].self < dev[e].self /\ dev[e].self < dev[d].self
    BY <2>1, <2>2 DEF DeviceOK, OffersDown
  <2> QED BY <2>2, <2>3 DEF Sessions
<1> QED BY <1>1, Invariant, PTL
=============================================================================
