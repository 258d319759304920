-------------------------------- MODULE Voice --------------------------------
(***************************************************************************)
(* A group's voice channel: web/src/state/voice.ts on the devices of its   *)
(* members.                                                                *)
(*                                                                         *)
(* A join makes a new session; ids are UUIDv7, so sessions are numbered in *)
(* the order they begin.  Everybody repeats its presence; of two sessions  *)
(* that know of each other the older one offers a connection.  Signals are *)
(* ephemeral: they overtake each other and may be lost.  A connection that *)
(* is closed while an offer or answer is being made for it makes that      *)
(* continuation fail later, and failing closes whatever connection there   *)
(* then is to the same session.                                            *)
(***************************************************************************)
EXTENDS Integers, FiniteSets

CONSTANTS
    Devices,        \* one per member
    Disturbed,      \* the devices that also call, sign out, show a camera or vanish
    MaxSessions,    \* bound: joins
    Scenes          \* circumstances: which devices take part (active), and as bounds how
                    \* many calls, second joins, sign-outs, closed tabs, cameras, prunings
                    \* and failed connections there are, all together (trouble), and how
                    \* many signals are on their way, what is sent beyond being lost (pending)

ASSUME VoiceAssumption ==
    /\ Disturbed \subseteq Devices
    /\ MaxSessions \in Nat
    /\ Scenes \subseteq [active : SUBSET Devices, trouble : Nat, pending : Nat]

Sessions == 1..MaxSessions
None     == 0
AtOnce   == 2  \* bound: the joins, and the requests for the camera, that wait at a time

VARIABLES
    scene,    \* the circumstances of this behaviour
    begun,    \* sessions begun so far
    trouble,  \* disturbances so far
    dev,      \* the module's variables on each device
    net       \* signals on their way

vars == <<scene, begun, trouble, dev, net>>

(***************************************************************************)
(* One device.  self is the session of voice.value; known are the sessions *)
(* of voiceRooms; peer is the map of connections, n telling one offer to a *)
(* session from the one before; joining counts the joins that wait for the *)
(* microphone, mics the microphones that are on (localStream is one of     *)
(* them while the device is in the channel); asking counts the requests    *)
(* for the camera, cameras the streams of it that capture, held is whether *)
(* cameraStream is one of them, camera what the button shows; failing are  *)
(* the sessions for which a continuation is about to fail.  History:       *)
(* crossed, whether a join ended when the device had joined already or was *)
(* in a call; doubled, whether the camera was granted while a stream of it *)
(* was held, which is then forgotten.                                      *)
(***************************************************************************)
NoPeer == [at |-> "none", n |-> 0]

Away == [self |-> None, known |-> {}, peer |-> [s \in Sessions |-> NoPeer], failing |-> {},
         joining |-> 0, mics |-> 0,
         asking |-> 0, cameras |-> 0, held |-> FALSE, camera |-> FALSE,
         calling |-> FALSE, signedIn |-> TRUE, crossed |-> FALSE, doubled |-> FALSE]

Init ==
    /\ scene \in Scenes
    /\ begun = 0 /\ trouble = 0
    /\ dev = [d \in Devices |-> Away]
    /\ net = {}

Here(x) == x.self # None

Disturb == trouble < scene.trouble /\ trouble' = trouble + 1

Set(d, x) == dev' = [dev EXCEPT ![d] = x] /\ UNCHANGED scene

\* signalTo: everybody in the group gets it, or it is lost.
Sent(signals, d, t, from, to, n) ==
    LET new == signals \cup [to : Devices \ {d}, t : {t}, from : {from}, for : {to}, n : {n}]
    IN  IF Cardinality(new) <= scene.pending THEN new ELSE signals

Tell(signals, d, t) == Sent(signals, d, t, dev[d].self, None, 0)

ClosePeer(x, s) ==
    [x EXCEPT !.peer[s].at = "none",
              !.failing = IF x.peer[s].at \in {"new", "answering"} THEN @ \cup {s} ELSE @]

\* Mutant: whoever hears of the other offers.
MaybeConnectBoth(x, S) ==
    [x EXCEPT !.peer = [s \in Sessions |->
        IF Here(x) /\ s \in S /\ s # x.self /\ @[s].at = "none"
        THEN [at |-> "new", n |-> 1 - @[s].n] ELSE @[s]]]

\* maybeConnect for the sessions S, and the start of offerTo.
MaybeConnect(x, S) ==
    [x EXCEPT !.peer = [s \in Sessions |->
        IF Here(x) /\ s \in S /\ x.self < s /\ @[s].at = "none"
        THEN [at |-> "new", n |-> 1 - @[s].n] ELSE @[s]]]

(***************************************************************************)
(* The buttons: in the group's header, in the strip under it that is only   *)
(* there when somebody is in the channel, and in the overlay of the channel.*)
(***************************************************************************)
Header(x)  == {IF Here(x) THEN "leave" ELSE "join"}
Strip(x)   == IF x.known = {} /\ ~Here(x) THEN {} ELSE {IF Here(x) THEN "leave" ELSE "join"}
Overlay(x) == IF Here(x) THEN {"leave", IF x.camera THEN "camera off" ELSE "camera on"} ELSE {}
Offers(x)  == Header(x) \cup Strip(x) \cup Overlay(x)

(***************************************************************************)
(* joinVoice and leaveVoice.                                               *)
(***************************************************************************)
JoinVoice(d) ==
    LET x == dev[d] IN
    /\ x.signedIn /\ ~x.calling /\ "join" \in Offers(x)
    /\ IF x.joining = 0 THEN UNCHANGED trouble ELSE Disturb /\ d \in Disturbed /\ x.joining < AtOnce
    /\ Set(d, [x EXCEPT !.joining = @ + 1])
    /\ UNCHANGED <<begun, net>>

\* stopCameraTracks: the stream that is held stops, one forgotten before does not.
Stopped(x) == [x EXCEPT !.cameras = IF x.held THEN @ - 1 ELSE @, !.held = FALSE, !.camera = FALSE]

\* All connections closed, as leaveVoice does.
Closed(x) == [x EXCEPT !.peer = [s \in Sessions |-> [@[s] EXCEPT !.at = "none"]],
                       !.failing = @ \cup {s \in Sessions :
                                            x.peer[s].at \in {"new", "answering"}}]

\* Mutant: the camera is not stopped.
LeftFilming(x) ==
    [Closed(x) EXCEPT !.known = @ \ {x.self}, !.self = None, !.mics = @ - 1, !.camera = FALSE]

\* leaveVoice, without its signal.
Left(x) == [Stopped(Closed(x)) EXCEPT !.known = @ \ {x.self}, !.self = None, !.mics = @ - 1]

\* The microphone is there.  A device that signed out meanwhile leaves at once
\* (the effect on session and voice).
Joined(d) ==
    LET x == dev[d] IN
    /\ x.joining > 0
    /\ IF ~x.signedIn
       THEN Set(d, [x EXCEPT !.joining = @ - 1]) /\ UNCHANGED <<begun, net>>
       ELSE /\ begun < MaxSessions
            /\ begun' = begun + 1
            /\ Set(d, [x EXCEPT !.joining = @ - 1, !.mics = @ + 1, !.self = begun',
                                !.known = @ \cup {begun'}, !.camera = FALSE,
                                !.crossed = @ \/ Here(x) \/ x.calling])
            /\ net' = Sent(net, d, "join", begun', None, 0)
    /\ UNCHANGED trouble

NotJoined(d) ==
    /\ dev[d].joining > 0
    /\ Set(d, [dev[d] EXCEPT !.joining = @ - 1])
    /\ UNCHANGED <<begun, trouble, net>>

\* The join signal is out: those already known are connected to.
AfterJoin(d) ==
    /\ MaybeConnect(dev[d], dev[d].known) # dev[d]
    /\ Set(d, MaybeConnect(dev[d], dev[d].known))
    /\ UNCHANGED <<begun, trouble, net>>

\* Every 20 seconds; retries the connections that are not in the map.
Heartbeat(d) ==
    /\ Here(dev[d])
    /\ net' = Tell(net, d, "here")
    /\ Set(d, MaybeConnect(dev[d], dev[d].known))
    /\ UNCHANGED <<begun, trouble>>

LeaveVoice(d) ==
    /\ "leave" \in Offers(dev[d])
    /\ net' = Tell(net, d, "leave")
    /\ Set(d, Left(dev[d]))
    /\ UNCHANGED <<begun, trouble>>

\* Mutant: who is gone is only taken off the list.
PruneList(d, s) ==
    /\ Disturb
    /\ s \in dev[d].known \ {dev[d].self}
    /\ Set(d, [dev[d] EXCEPT !.known = @ \ {s}])
    /\ UNCHANGED <<begun, net>>

\* Not heard of for 65 seconds.
Prune(d, s) ==
    /\ Disturb
    /\ s \in dev[d].known \ {dev[d].self}
    /\ Set(d, [ClosePeer(dev[d], s) EXCEPT !.known = @ \ {s}])
    /\ UNCHANGED <<begun, net>>

(***************************************************************************)
(* offerTo and acceptOffer after their awaits.                             *)
(***************************************************************************)
OfferMade(d, s) ==
    LET x == dev[d] IN
    /\ x.peer[s].at = "new" /\ Here(x)
    /\ Set(d, [x EXCEPT !.peer[s].at = "offered"])
    /\ net' = Sent(net, d, "offer", x.self, s, x.peer[s].n)
    /\ UNCHANGED <<begun, trouble>>

AnswerMade(d, s) ==
    LET x == dev[d] IN
    /\ x.peer[s].at = "answering" /\ Here(x)
    /\ Set(d, [x EXCEPT !.peer[s].at = "stable"])
    /\ net' = Sent(net, d, "answer", x.self, s, x.peer[s].n)
    /\ UNCHANGED <<begun, trouble>>

\* The exception of a continuation whose connection was closed.
ContinuationFails(d, s) ==
    /\ s \in dev[d].failing
    /\ Set(d, ClosePeer([dev[d] EXCEPT !.failing = @ \ {s}], s))
    /\ UNCHANGED <<begun, trouble, net>>

(***************************************************************************)
(* handleVoiceSignal.                                                      *)
(***************************************************************************)
HandlePresence(d, m) ==
    LET x == [dev[d] EXCEPT !.known = @ \cup {m.from}] IN
    /\ m.t \in {"join", "here"}
    /\ Set(d, MaybeConnect(x, {m.from}))
    /\ net' = IF m.t = "join" /\ Here(x) THEN Tell(net \ {m}, d, "here") ELSE net \ {m}
    /\ UNCHANGED <<begun, trouble>>

HandleLeave(d, m) ==
    /\ m.t = "leave"
    /\ Set(d, [ClosePeer(dev[d], m.from) EXCEPT !.known = @ \ {m.from}])
    /\ net' = net \ {m}
    /\ UNCHANGED <<begun, trouble>>

\* A connection there may already be to that session is replaced.
HandleOffer(d, m) ==
    LET x == dev[d] IN
    /\ m.t = "offer"
    /\ Set(d, IF Here(x) /\ m.for = x.self
              THEN [ClosePeer(x, m.from) EXCEPT !.peer[m.from] =
                                                   [at |-> "answering", n |-> m.n]]
              ELSE x)
    /\ net' = net \ {m}
    /\ UNCHANGED <<begun, trouble>>

\* An answer to an offer before the last one is taken for an answer to the last.
HandleAnswer(d, m) ==
    LET x == dev[d] IN
    /\ m.t = "answer"
    /\ Set(d, IF Here(x) /\ m.for = x.self /\ x.peer[m.from].at = "offered"
              THEN [x EXCEPT !.peer[m.from].at = IF @ = "offered" /\ x.peer[m.from].n = m.n
                                                 THEN "stable" ELSE "broken"]
              ELSE x)
    /\ net' = net \ {m}
    /\ UNCHANGED <<begun, trouble>>

Receive(d) == \E m \in {k \in net : k.to = d} :
    \/ HandlePresence(d, m) \/ HandleLeave(d, m) \/ HandleOffer(d, m) \/ HandleAnswer(d, m)

Lose == \E m \in net :
    /\ net' = net \ {m}
    /\ UNCHANGED <<scene, begun, trouble, dev>>

(***************************************************************************)
(* The connections (RTCPeerConnection).                                    *)
(***************************************************************************)
\* The connections of d and of the device of session s belong together.
Matched(d, s) == \E e \in Devices \ {d} :
    LET p == dev[d].peer[s]
        q == dev[e].peer[dev[d].self]
    IN  /\ Here(dev[d]) /\ dev[e].self = s
        /\ p.at \in {"stable", "up"} /\ q.at \in {"stable", "up"} /\ p.n = q.n

Connected(d, s) ==
    /\ dev[d].peer[s].at = "stable" /\ Matched(d, s)
    /\ Set(d, [dev[d] EXCEPT !.peer[s].at = "up"])
    /\ UNCHANGED <<begun, trouble, net>>

\* Only a connection that has both descriptions can fail.
ConnectionFailed(d, s) ==
    /\ Disturb
    /\ dev[d].peer[s].at \in {"stable", "up", "broken"}
    /\ Set(d, ClosePeer(dev[d], s))
    /\ UNCHANGED <<begun, net>>

(***************************************************************************)
(* Camera, calls, signing out and closing the tab.                         *)
(***************************************************************************)
\* The button offers the camera until it was granted, and may be pressed again.
StartCamera(d) ==
    /\ Disturb
    /\ d \in Disturbed /\ "camera on" \in Offers(dev[d]) /\ dev[d].asking < AtOnce
    /\ Set(d, [dev[d] EXCEPT !.asking = @ + 1])
    /\ UNCHANGED <<begun, net>>

\* Mutant: nobody looks whether the channel was left meanwhile.
GotCameraAnyway(d) ==
    LET x == [dev[d] EXCEPT !.asking = @ - 1] IN
    /\ dev[d].asking > 0
    /\ \/ Set(d, x)
       \/ Set(d, [x EXCEPT !.cameras = @ + 1, !.held = TRUE, !.camera = TRUE,
                           !.doubled = x.doubled \/ x.held])
    /\ UNCHANGED <<begun, trouble, net>>

\* It is granted, or refused, which changes nothing but a message to the user; out of
\* the channel the stream is stopped at once.
GotCamera(d) ==
    LET x == [dev[d] EXCEPT !.asking = @ - 1] IN
    /\ dev[d].asking > 0
    /\ \/ Set(d, x)
       \/ /\ Here(x)
          /\ Set(d, [x EXCEPT !.cameras = @ + 1, !.held = TRUE, !.camera = TRUE,
                              !.doubled = x.doubled \/ x.held])
    /\ UNCHANGED <<begun, trouble, net>>

StopCamera(d) ==
    /\ "camera off" \in Offers(dev[d])
    /\ Set(d, Stopped(dev[d]))
    /\ UNCHANGED <<begun, trouble, net>>

\* A stream ends by itself (onended): the one that is held, or one that was forgotten,
\* which stops the one that is held as well.
CameraEnds(d) ==
    LET x == dev[d] IN
    /\ Disturb
    /\ \/ x.held /\ Set(d, Stopped(x))
       \/ Stopped(x).cameras > 0 /\ Set(d, [Stopped(x) EXCEPT !.cameras = @ - 1])
    /\ UNCHANGED <<begun, net>>

\* calls.ts: a call begins only outside the channel.
Call(d) ==
    /\ Disturb
    /\ d \in Disturbed /\ dev[d].signedIn /\ ~Here(dev[d]) /\ ~dev[d].calling
    /\ Set(d, [dev[d] EXCEPT !.calling = TRUE])
    /\ UNCHANGED <<begun, net>>

Hangup(d) ==
    /\ dev[d].calling
    /\ Set(d, [dev[d] EXCEPT !.calling = FALSE])
    /\ UNCHANGED <<begun, trouble, net>>

\* Without a session the signal cannot be sealed.
Logout(d) ==
    /\ Disturb
    /\ d \in Disturbed /\ dev[d].signedIn
    /\ Set(d, [(IF Here(dev[d]) THEN Left(dev[d]) ELSE dev[d]) EXCEPT !.signedIn = FALSE])
    /\ UNCHANGED <<begun, net>>

Login(d) ==
    /\ ~dev[d].signedIn
    /\ Set(d, [dev[d] EXCEPT !.signedIn = TRUE])
    /\ UNCHANGED <<begun, trouble, net>>

\* pagehide: the tab is gone, its signal may still get out.
PageHide(d) ==
    /\ Disturb
    /\ d \in Disturbed /\ dev[d] # Away
    /\ net' = IF Here(dev[d]) THEN Tell(net, d, "leave") ELSE net
    /\ Set(d, Away)
    /\ UNCHANGED begun

(***************************************************************************)
(* The specification.                                                      *)
(***************************************************************************)
Act(d) ==
    \/ JoinVoice(d) \/ Joined(d) \/ NotJoined(d) \/ AfterJoin(d) \/ Heartbeat(d) \/ LeaveVoice(d)
    \/ Receive(d)
    \/ \E s \in Sessions : \/ Prune(d, s) \/ OfferMade(d, s) \/ AnswerMade(d, s)
                           \/ ContinuationFails(d, s)
                           \/ Connected(d, s) \/ ConnectionFailed(d, s)
    \/ StartCamera(d) \/ GotCamera(d) \/ StopCamera(d) \/ CameraEnds(d)
    \/ Call(d) \/ Hangup(d) \/ Logout(d) \/ Login(d) \/ PageHide(d)

Next == Lose \/ \E d \in scene.active : Act(d)

Spec == Init /\ [][Next]_vars

(***************************************************************************)
(* Type invariant.                                                         *)
(***************************************************************************)
Device == [self : Sessions \cup {None}, known : SUBSET Sessions, failing : SUBSET Sessions,
           peer : [Sessions -> [at : {"none", "new", "offered", "answering", "stable", "up",
                                      "broken"}, n : {0, 1}]],
           joining : 0..AtOnce, mics : 0..MaxSessions,
           asking : 0..AtOnce, cameras : Nat, held : BOOLEAN, camera : BOOLEAN,
           calling : BOOLEAN, signedIn : BOOLEAN, crossed : BOOLEAN, doubled : BOOLEAN]

Signal == [t : {"join", "here", "leave", "offer", "answer"}, from : Sessions,
           to : Devices, for : Sessions \cup {None}, n : {0, 1}]

\* Every variable has its type, a session id is used by one device, and what is
\* known or connected to is a session that began.
TypeOK ==
    /\ scene \in Scenes
    /\ begun \in 0..MaxSessions /\ trouble \in 0..scene.trouble
    /\ dev \in [Devices -> Device]
    /\ net \subseteq Signal
    /\ \A d, e \in Devices : Here(dev[d]) /\ dev[d].self = dev[e].self => d = e
    /\ \A d \in Devices : dev[d].known \cup {s \in Sessions : dev[d].peer[s].at # "none"}
                             \subseteq 1..begun

\* Out of the channel nothing of the device goes out: no connection that a late
\* continuation or signal made, no camera, unless a second grant made the device
\* forget a stream, and no microphone, unless two joins overlapped or a join ended
\* during a call (leaveVoice, startVoiceCamera's check after its await, offerTo,
\* acceptOffer).
OutsideIsSilent == \A d \in Devices : ~Here(dev[d]) =>
    /\ \A s \in Sessions : dev[d].peer[s].at = "none"
    /\ dev[d].cameras = 0 \/ dev[d].doubled
    /\ dev[d].mics = 0 \/ dev[d].crossed

\* A button that says the camera is off tells the truth, with the same exceptions:
\* requests, grants and refusals may come before or after the channel was left and
\* joined again (startVoiceCamera, stopVoiceCamera, joinVoice).
OffIsOff == \A d \in Devices :
    ~dev[d].camera => dev[d].cameras = 0 \/ dev[d].doubled \/ dev[d].crossed

\* Whoever signs out leaves the channel, a join that waits for its microphone
\* included (the effect at the end of voice.ts runs for session and for voice).
SignedOutIsOut == \A d \in Devices : ~dev[d].signedIn => ~Here(dev[d])

\* The state a device is in makes sense: it is well typed, one that is out of the
\* channel, or signed out, is silent, and a camera that captures is shown to be on
\* (voice.ts:189-206, 260-299, 541-544).
Consistent == TypeOK /\ OutsideIsSilent /\ OffIsOff /\ SignedOutIsOut

(***************************************************************************)
(* Safety.                                                                 *)
(***************************************************************************)
\* A connection this device offered is to a session it lists, so that the prune
\* that drops the session, or its leave, also closes a connection that never
\* came up (prune, handleVoiceSignal).
OffersListed == \A d \in Devices, s \in Sessions :
    dev[d].peer[s].at \in {"new", "offered"} => s \in dev[d].known

\* Two devices never offer to each other's session at once, whatever presences
\* overtook each other or were lost (maybeConnect; PROTOCOL.md 6: "no glare").
\* A second join, ended while the first is in the channel, replaces the session
\* that already offered, and is left out.
NoGlare == \A d, e \in Devices :
    d # e /\ Here(dev[d]) /\ Here(dev[e]) /\ ~dev[d].crossed /\ ~dev[e].crossed =>
        ~ /\ dev[d].peer[dev[e].self].at \in {"new", "offered"}
          /\ dev[e].peer[dev[d].self].at \in {"new", "offered"}
=============================================================================
