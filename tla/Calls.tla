-------------------------------- MODULE Calls --------------------------------
(***************************************************************************)
(* One-to-one calls: web/src/state/calls.ts on the devices of two          *)
(* accounts.                                                               *)
(*                                                                         *)
(* Signals are ephemeral envelopes to every other device of both accounts. *)
(* Nothing stores them: one may be lost (it is then never received), they  *)
(* overtake each other, and offers and answers are repeated.  startCall    *)
(* and acceptCall wait several times (for servers, for the microphone, for *)
(* descriptions, for the request that carries the signal); whatever the    *)
(* module does meanwhile, the continuation goes on with the values of the  *)
(* module's variables it then finds.  A call has at most one               *)
(* RTCPeerConnection on a device, so a connection is named by its call.    *)
(***************************************************************************)
EXTENDS Integers, Sequences, FiniteSets

CONSTANTS
    Anna, Ben,    \* the devices of the two accounts
    MaxCalls,     \* bound: calls started
    MaxSize,      \* bound: devices in use, devices capturing and calls together
    MaxPending    \* bound: calls and signals on their way, what exceeds it is lost

ASSUME CallsAssumption ==
    /\ Anna \cap Ben = {}
    /\ MaxCalls \in Nat \ {0} /\ MaxSize \in Nat /\ MaxPending \in Nat

Devices == Anna \cup Ben
Ids     == 1..MaxCalls
None    == 0

VARIABLES
    on,       \* the devices in use
    capturing,\* those of them that use camera and screen
    callers,  \* the calls started so far: the device that did
    dev,      \* the module's variables on each device
    net       \* signals on their way

setup == <<on, capturing>>
vars == <<setup, callers, dev, net>>

(***************************************************************************)
(* One device.  id, status, sharing and local are call.value (local: the   *)
(* call whose microphone is localStream); pc, offer (pendingOffer, by its  *)
(* call), camera and screen are the module's globals; peer and remote are  *)
(* the connections made and whose description each was given; work is      *)
(* where the startCall or acceptCall of each call stands; mics are the     *)
(* calls whose microphone is on; asking and picking the calls in which a   *)
(* camera or a screen has been asked for.  History: outlived, the calls    *)
(* that ended while a continuation of theirs waited.                       *)
(***************************************************************************)
Nobody == [call |-> None, from |-> "nobody"]

Quiet == [id |-> None, status |-> "none", local |-> None, sharing |-> FALSE,
          pc |-> None, offer |-> Nobody, camera |-> FALSE, screen |-> FALSE,
          peer |-> [c \in Ids |-> "none"], remote |-> [c \in Ids |-> Nobody],
          work |-> [c \in Ids |-> "none"], mics |-> {}, asking |-> {}, picking |-> {},
          outlived |-> {}]

Running(s) == s.status \in {"ringing-in", "ringing-out", "connecting", "active"}

Runs(s, c) == s.id = c /\ Running(s)

Account(d) == IF d \in Anna THEN Anna ELSE Ben

\* sendSignal by d.  The sender's own other devices act on answers and
\* rejections only.
Copies(d, t, c) ==
    {[to |-> e, t |-> t, call |-> c, from |-> d] :
        e \in {f \in on : f \notin Account(d) \/ (f # d /\ t \in {"answer", "reject"})}}

Sent(signals, d, t, c) ==
    LET new == signals \cup Copies(d, t, c)
    IN  IF Cardinality(new) + Len(callers) <= MaxPending THEN new ELSE signals

Set(d, s) == dev' = [dev EXCEPT ![d] = s]
Send(d, t, c) == net' = Sent(net, d, t, c)

Init ==
    /\ on \in {S \cup T : S \in SUBSET Anna \ {{}}, T \in SUBSET Ben \ {{}}}
    /\ capturing \in SUBSET on
    /\ callers = <<>>
    /\ dev = [d \in Devices |-> Quiet]
    /\ net = {}

\* call.value = null
Cleared(s) == [s EXCEPT !.id = None, !.status = "none", !.local = None, !.sharing = FALSE]

\* freshState
Fresh(s, c, status) == [Cleared(s) EXCEPT !.id = c, !.status = status]

\* The connection pc refers to, and everything the module holds, is let go.
Released(s) ==
    [s EXCEPT !.outlived = IF Running(s) /\ (s.work[s.id] # "none" \/ s.id \in s.picking)
                           THEN @ \cup {s.id} ELSE @,
              !.local = None, !.sharing = FALSE, !.pc = None, !.offer = Nobody,
              !.camera = FALSE, !.screen = FALSE,
              !.peer = [c \in Ids |-> IF c = s.pc THEN "closed" ELSE @[c]],
              !.remote = [c \in Ids |-> IF c = s.pc THEN Nobody ELSE @[c]]]

\* Mutant: the call ends and its microphone stays on.
EndedMicOn(s) == [Released(s) EXCEPT !.status = IF @ = "none" THEN @ ELSE "ended"]

\* endCall: timers, tracks and connection go, whichever call they belong to;
\* the call of the moment, if there is one, has ended.
Ended(s) == [Released(s) EXCEPT !.status = IF @ = "none" THEN @ ELSE "ended",
                                !.mics = @ \ {s.local}]

\* The buttons of the call overlay (mute left out).
Offers(s) ==
    LET when(b, buttons) == IF b THEN buttons ELSE {}
    IN  UNION {when(s.status = "ringing-in", {"answer", "decline"}),
               when(s.status \in {"connecting", "active"} /\ s.local # None, {"camera"}),
               when(s.status = "active", {"share"}),
               when(s.status \in {"ringing-out", "connecting", "active"}, {"hang up"}),
               when(s.status = "ended", {"close"})}

(***************************************************************************)
(* startCall and acceptCall, await by await.                               *)
(***************************************************************************)
StartCall(d) ==
    /\ ~Running(dev[d])
    /\ Len(callers) < MaxCalls
    /\ Len(callers) + Cardinality(on) + Cardinality(capturing) < MaxSize
    /\ callers' = Append(callers, d)
    /\ LET c == Len(callers')
       IN  Set(d, [Fresh(dev[d], c, "ringing-out") EXCEPT !.work[c] = "servers"])
    /\ UNCHANGED <<setup, net>>

AcceptCall(d) ==
    LET s == dev[d] IN
    /\ "answer" \in Offers(s) /\ s.offer # Nobody
    /\ s.work[s.id] = "none"    \* bound: a call is not answered twice at a time
    /\ Set(d, [s EXCEPT !.status = "connecting", !.work[s.id] = "servers"])
    /\ UNCHANGED <<setup, callers, net>>

\* An exception ends the call of the moment.
Fails(d, c, s) == Set(d, Ended([s EXCEPT !.work[c] = "none"])) /\ UNCHANGED net

\* createPeer: the new connection replaces whatever pc holds ...
CreatePeer(d, c) ==
    /\ dev[d].work[c] = "servers"
    /\ Set(d, [dev[d] EXCEPT !.pc = c, !.peer[c] = "new", !.work[c] = "mic"])
    /\ UNCHANGED <<setup, callers, net>>

\* ... and then waits for the microphone: a closed connection takes no track,
\* otherwise it is the localStream of the call of the moment.
GotMicrophone(d, c) ==
    LET s == [dev[d] EXCEPT !.mics = @ \cup {c}] IN
    /\ dev[d].work[c] = "mic"
    /\ IF s.peer[c] = "closed" THEN Fails(d, c, s)
       ELSE /\ \E stage \in {"describe"} \cup (IF d \in capturing THEN {"camera"} ELSE {}) :
                 Set(d, [s EXCEPT !.local = IF s.status = "none" THEN @ ELSE c,
                                  !.work[c] = stage])
            /\ UNCHANGED net
    /\ UNCHANGED <<setup, callers>>

\* Mutant: the exception is only logged.
NoMicrophoneLogged(d, c) ==
    /\ dev[d].work[c] = "mic"
    /\ Set(d, [dev[d] EXCEPT !.work[c] = "none"])
    /\ UNCHANGED <<setup, callers, net>>

\* The user refuses the microphone.
NoMicrophone(d, c) ==
    /\ dev[d].work[c] = "mic"
    /\ Fails(d, c, dev[d])
    /\ UNCHANGED <<setup, callers>>

\* enableCamera after its await: whichever call runs by now gets the camera.
WithCamera(s) == IF Running(s) THEN [s EXCEPT !.camera = TRUE] ELSE s

\* A video call asks for the camera before it is described.
CameraFirst(d, c) ==
    /\ dev[d].work[c] = "camera"
    /\ \E s \in {dev[d], WithCamera(dev[d])} : Set(d, [s EXCEPT !.work[c] = "describe"])
    /\ UNCHANGED <<setup, callers, net>>

\* createOffer and setLocalDescription, which a closed connection refuses;
\* then the signal goes out, and the timers of the caller are set.
DescribeOffer(d, c) ==
    LET s == dev[d] IN
    /\ s.work[c] = "describe" /\ callers[c] = d
    /\ IF s.peer[c] = "closed" THEN Fails(d, c, s)
       ELSE /\ Set(d, [s EXCEPT !.peer[c] = "offered", !.work[c] = "none"])
            /\ Send(d, "offer", c)
    /\ UNCHANGED <<setup, callers>>

\* setRemoteDescription of the offer that is pending by now, createAnswer and
\* setLocalDescription; then the signal, and the timer that repeats it.
DescribeAnswer(d, c) ==
    LET s == dev[d] IN
    /\ s.work[c] = "describe" /\ callers[c] # d
    /\ IF s.peer[c] = "closed" \/ s.offer = Nobody THEN Fails(d, c, s)
       ELSE /\ Set(d, [s EXCEPT !.peer[c] = "stable", !.remote[c] = s.offer,
                                !.work[c] = "none"])
            /\ Send(d, "answer", c)
    /\ UNCHANGED <<setup, callers>>

\* Every 5 seconds while it rings ...
RepeatOffer(d) ==
    LET s == dev[d] IN
    /\ s.status = "ringing-out" /\ s.pc = s.id /\ s.peer[s.id] = "offered"
    /\ Send(d, "offer", s.id)
    /\ UNCHANGED <<setup, callers, dev>>

\* ... and every 3 seconds until the connection is up.
RepeatAnswer(d) ==
    LET s == dev[d] IN
    /\ s.status = "connecting" /\ s.pc = s.id /\ s.peer[s.id] = "stable"
    /\ callers[s.id] # d
    /\ Send(d, "answer", s.id)
    /\ UNCHANGED <<setup, callers, dev>>

(***************************************************************************)
(* Timers and buttons.                                                     *)
(***************************************************************************)
\* 45 seconds of ringing; the caller's timer is set only once the offer is out.
RingTimeout(d) ==
    LET s == dev[d] IN
    /\ \/ s.status = "ringing-in" /\ UNCHANGED net
       \/ /\ s.status = "ringing-out" /\ s.peer[s.id] = "offered"
          /\ Send(d, "hangup", s.id)
    /\ Set(d, Ended(s))
    /\ UNCHANGED <<setup, callers>>

RejectCall(d) ==
    /\ "decline" \in Offers(dev[d])
    /\ Send(d, "reject", dev[d].id)
    /\ Set(d, Ended(dev[d]))
    /\ UNCHANGED <<setup, callers>>

Hangup(d) ==
    /\ "hang up" \in Offers(dev[d])
    /\ Send(d, "hangup", dev[d].id)
    /\ Set(d, Ended(dev[d]))
    /\ UNCHANGED <<setup, callers>>

\* The end timer, or a tap: the ended call disappears.
Dismiss(d) ==
    /\ "close" \in Offers(dev[d])
    /\ Set(d, Cleared(dev[d]))
    /\ UNCHANGED <<setup, callers, net>>

(***************************************************************************)
(* handleCallSignal.                                                       *)
(***************************************************************************)
\* Another device of this account took or dismissed the call.
HandleElsewhere(d, m) ==
    LET s == dev[d] IN
    /\ m.from \in Account(d)
    /\ Set(d, IF m.call = s.id /\ s.status = "ringing-in" THEN Ended(s) ELSE s)
    /\ net' = net \ {m}
    /\ UNCHANGED <<setup, callers>>

\* A repeat only brings candidates; whoever is in a call is busy.
HandleOffer(d, m) ==
    LET s == dev[d] IN
    /\ m.t = "offer"
    /\ IF m.call = s.id THEN net' = net \ {m} /\ UNCHANGED dev
       ELSE IF Running(s)
       THEN net' = Sent(net \ {m}, d, "reject", m.call) /\ UNCHANGED dev
       ELSE /\ Set(d, [Fresh(s, m.call, "ringing-in")
                         EXCEPT !.offer = [call |-> m.call, from |-> m.from]])
            /\ net' = net \ {m}
    /\ UNCHANGED <<setup, callers>>

\* The description is set on the connection of the moment; one that has made
\* no offer refuses it.
Answered(s, m) ==
    IF s.peer[s.pc] = "offered"
    THEN [s EXCEPT !.status = "connecting", !.peer[s.pc] = "stable",
                   !.remote[s.pc] = [call |-> m.call, from |-> m.from]]
    ELSE Ended(s)

\* Mutant: every answer counts, also to a call that is over.
HandleAnswerAlways(d, m) ==
    LET s == dev[d] IN
    /\ m.t = "answer" /\ m.from \notin Account(d)
    /\ Set(d, IF m.call = s.id THEN [s EXCEPT !.status = "connecting"] ELSE s)
    /\ net' = net \ {m}
    /\ UNCHANGED <<setup, callers>>

\* Mutant: a second answer replaces the first.
HandleAnswerAgain(d, m) ==
    LET s == dev[d] IN
    /\ m.t = "answer" /\ m.from \notin Account(d)
    /\ Set(d, IF m.call = s.id /\ s.pc # None
              THEN Answered([s EXCEPT !.peer[s.pc] = "offered"], m) ELSE s)
    /\ net' = net \ {m}
    /\ UNCHANGED <<setup, callers>>

\* Mutant: an answer counts for whichever call rings.
HandleAnswerAny(d, m) ==
    LET s == dev[d] IN
    /\ m.t = "answer" /\ m.from \notin Account(d)
    /\ Set(d, IF s.status = "ringing-out" /\ s.pc # None THEN Answered(s, m) ELSE s)
    /\ net' = net \ {m}
    /\ UNCHANGED <<setup, callers>>

HandleAnswer(d, m) ==
    LET s == dev[d] IN
    /\ m.t = "answer" /\ m.from \notin Account(d)
    /\ Set(d, IF m.call = s.id /\ s.status = "ringing-out" /\ s.pc # None
              THEN Answered(s, m) ELSE s)
    /\ net' = net \ {m}
    /\ UNCHANGED <<setup, callers>>

\* Whatever state the call is in.
HandleEnd(d, m) ==
    /\ m.t \in {"reject", "hangup"} /\ m.from \notin Account(d)
    /\ Set(d, IF m.call = dev[d].id THEN Ended(dev[d]) ELSE dev[d])
    /\ net' = net \ {m}
    /\ UNCHANGED <<setup, callers>>

\* Nothing stores a signal: who is offline for a moment never gets it.
Lose == \E m \in net :
    /\ net' = net \ {m}
    /\ UNCHANGED <<setup, callers, dev>>

(***************************************************************************)
(* The connection (RTCPeerConnection).                                     *)
(***************************************************************************)
\* The two ends were described to each other and neither was closed.
Matched(d, c) ==
    LET e == dev[d].remote[c].from IN
    /\ dev[d].peer[c] \in {"stable", "up"} /\ dev[d].remote[c].call = c
    /\ dev[e].peer[c] \in {"stable", "up"}
    /\ dev[e].remote[c] = [call |-> c, from |-> d]

\* Events of a connection that pc does not refer to are ignored.
Connected(d, c) ==
    /\ dev[d].peer[c] = "stable" /\ Matched(d, c)
    /\ Set(d, [dev[d] EXCEPT !.peer[c] = "up",
                             !.status = IF dev[d].pc = c /\ @ # "none" THEN "active" ELSE @])
    /\ UNCHANGED <<setup, callers, net>>

\* A described connection may fail at any time.
ConnectionFailed(d, c) ==
    /\ dev[d].peer[c] \in {"stable", "up"} /\ dev[d].pc = c
    /\ Set(d, Ended(dev[d]))
    /\ UNCHANGED <<setup, callers, net>>

(***************************************************************************)
(* Camera and screen.                                                      *)
(***************************************************************************)
ToggleCamera(d) ==
    /\ d \in capturing /\ "camera" \in Offers(dev[d]) /\ ~dev[d].camera
    /\ Set(d, [dev[d] EXCEPT !.asking = @ \cup {dev[d].id}])
    /\ UNCHANGED <<setup, callers, net>>

DisableCamera(d) ==
    /\ "camera" \in Offers(dev[d]) /\ dev[d].camera
    /\ Set(d, [dev[d] EXCEPT !.camera = FALSE])
    /\ UNCHANGED <<setup, callers, net>>

GotCamera(d) == \E c \in dev[d].asking :
    /\ \E s \in {dev[d], WithCamera(dev[d])} : Set(d, [s EXCEPT !.asking = @ \ {c}])
    /\ UNCHANGED <<setup, callers, net>>

StartScreenShare(d) ==
    LET s == dev[d] IN
    /\ d \in capturing /\ "share" \in Offers(s)
    /\ s.pc # None /\ ~s.sharing
    /\ Set(d, [s EXCEPT !.picking = @ \cup {s.id}])
    /\ UNCHANGED <<setup, callers, net>>

\* The picker returns: nothing is asked about the call by then.
GotScreen(d) == \E c \in dev[d].picking :
    /\ LET s == [dev[d] EXCEPT !.picking = @ \ {c}]
       IN  \E picked \in BOOLEAN :
             Set(d, IF ~picked THEN s
                    ELSE [s EXCEPT !.screen = TRUE,
                                   !.sharing = (s.status # "none")])
    /\ UNCHANGED <<setup, callers, net>>

\* The button again, or the browser's own.
StopScreenShare(d) ==
    /\ dev[d].screen \/ dev[d].sharing
    /\ Set(d, [dev[d] EXCEPT !.screen = FALSE, !.sharing = FALSE])
    /\ UNCHANGED <<setup, callers, net>>

(***************************************************************************)
(* The specification.                                                      *)
(***************************************************************************)
Receive(d) == \E m \in {n \in net : n.to = d} :
    \/ HandleElsewhere(d, m) \/ HandleOffer(d, m) \/ HandleAnswer(d, m) \/ HandleEnd(d, m)

\* The continuations.
Proceed(d, c) ==
    \/ CreatePeer(d, c) \/ GotMicrophone(d, c) \/ NoMicrophone(d, c)
    \/ CameraFirst(d, c) \/ DescribeOffer(d, c) \/ DescribeAnswer(d, c)

Act(d) ==
    \/ StartCall(d) \/ AcceptCall(d) \/ RejectCall(d) \/ Hangup(d) \/ Dismiss(d)
    \/ RingTimeout(d) \/ RepeatOffer(d) \/ RepeatAnswer(d)
    \/ Receive(d)
    \/ \E c \in Ids : Proceed(d, c) \/ Connected(d, c) \/ ConnectionFailed(d, c)
    \/ ToggleCamera(d) \/ DisableCamera(d) \/ GotCamera(d)
    \/ StartScreenShare(d) \/ GotScreen(d) \/ StopScreenShare(d)

Next == Lose \/ \E d \in on : Act(d)

Spec == Init /\ [][Next]_vars

(***************************************************************************)
(* Type invariant.                                                         *)
(***************************************************************************)
Origin == [call : Ids, from : Devices] \cup {Nobody}

State ==
    [id : Ids \cup {None},
     status : {"none", "ringing-in", "ringing-out", "connecting", "active", "ended"},
     local : Ids \cup {None}, sharing : BOOLEAN, pc : Ids \cup {None}, offer : Origin,
     camera : BOOLEAN, screen : BOOLEAN,
     peer : [Ids -> {"none", "new", "offered", "stable", "up", "closed"}],
     remote : [Ids -> Origin],
     work : [Ids -> {"none", "servers", "mic", "camera", "describe"}],
     mics : SUBSET Ids, asking : SUBSET Ids, picking : SUBSET Ids, outlived : SUBSET Ids]

TypeOK ==
    /\ capturing \subseteq on /\ on \subseteq Devices
    /\ callers \in Seq(on) /\ Len(callers) <= MaxCalls
    /\ \A d \in Devices : /\ dev[d] \in State
                          /\ (dev[d].id = None) = (dev[d].status = "none")
    /\ net \subseteq [to : on, from : on, call : Ids, t : {"offer", "answer", "reject", "hangup"}]

(***************************************************************************)
(* Safety.  A continuation that finds its call over is the code's way out  *)
(* of all of this; each property says that it is the only one.             *)
(***************************************************************************)
Straight(s) == s.outlived = {}

\* Whatever is on, microphone, camera or screen, belongs to the call that runs
\* now, unless its await outlived its call: endCall switches the rest off,
\* however the call ended (startCall, acceptCall, enableCamera, endCall).
TracksHeld == \A d \in Devices : LET s == dev[d] IN
    Straight(s) =>
        /\ \A c \in s.mics : Runs(s, c) /\ s.local = c
        /\ s.camera \/ s.screen => Running(s)

\* A call that rings or connects has something that will end it or bring it up:
\* a timer, a continuation, or a connection both of whose descriptions are set.
\* There is no timer once it connects, so nothing else could.
NeverStuck == \A d \in Devices : LET s == dev[d] IN
    Straight(s) =>
        /\ s.status = "ringing-out" => s.work[s.id] # "none" \/ s.peer[s.id] = "offered"
        /\ s.status = "connecting" =>
              s.work[s.id] # "none" \/ (s.pc = s.id /\ s.peer[s.id] = "stable")
        /\ s.status = "active" => s.pc = s.id /\ s.peer[s.id] = "up"

\* Every device is in a state it can be in, and can leave it again.
Consistent == TypeOK /\ NeverStuck

\* A connection is only ever given the description of its own call.
DescriptionsMatch == \A d \in Devices : \A c \in Ids :
    Straight(dev[d]) => dev[d].remote[c].call \in {c, None}

\* A call is up between two devices at most, however many of the callee's
\* devices answered it and however often answers are repeated.
TwoEnds == \A c \in Ids : Cardinality({d \in Devices : dev[d].peer[c] = "up"}) <= 2

\* A running call is never replaced by another, and one that has ended never
\* runs again, whatever late or repeated signal arrives for it.
CallsKept == [][\A d \in Devices : LET s == dev[d]  t == dev'[d] IN
    Straight(t) =>
        /\ Running(s) => t.id = s.id
        /\ s.status = "ended" /\ t.id = s.id => t.status = "ended"]_vars
=============================================================================
