------------------------------- MODULE Panels -------------------------------
(***************************************************************************)
(* The screens on which an account is managed: the users, invites and      *)
(* settings of the administrator's panel, the settings of one's own        *)
(* account and the dialog with one's bots (web/src/ui/AdminPanel.tsx,      *)
(* Settings.tsx, BotsDialog.tsx) with the handlers they call.              *)
(*                                                                         *)
(* Every press of a button sends a request and goes on when its answer     *)
(* comes; nothing keeps several requests from being under way, from being  *)
(* served and answered in another order, or from failing before or after   *)
(* the server did what was asked.                                          *)
(***************************************************************************)
EXTENDS Naturals, SequencesExt

CONSTANTS
    Screens,       \* the screens somebody may open
    Accounts, Me,  \* the accounts and whose screen it is
    BotAccounts,   \* the accounts that are bots
    BotOwner,      \* whose they are
    Codes, OldCodes,  \* the codes invites can get, and those there are at first
    Devices,       \* one's other devices
    Bots, OldBots, \* the bots one may own, and those one owns at first
    None,          \* no value: null, or an empty list not fetched yet
    MaxCalls,      \* bound: the requests sent by pressing something
    MaxElsewhere   \* bound: the changes made by somebody else

ASSUME PanelsAssumption ==
    /\ Me \in Accounts /\ BotAccounts \subseteq Accounts \ {Me}
    /\ BotOwner \in [BotAccounts -> Accounts \ BotAccounts]
    /\ OldCodes \subseteq Codes /\ OldBots \subseteq Bots

VARIABLES
    screen,     \* the screen that is open
    db,         \* what the server has stored
    calls,      \* the requests under way, the served ones in the order they were served
    shown,      \* the list (users, invites, devices, bots) or the form (server) shown
    vis,        \* the visibility shown (visibility.value)
    password,   \* something is typed into the password form
    confirm,    \* whose deletion is asked about (confirmDelete)
    invite,     \* the new codes, the QR switch, the code picked and the code drawn
    drawings,   \* the QR codes being drawn
    creds,      \* the credentials of a bot on the screen
    editing,    \* the bot whose row is a form
    busy,       \* the dialog runs something
    dirty,      \* history: the settings form holds changes that were not saved
    excused,    \* history: something happened after which the screen may be wrong
    made, elsewhere  \* the counters of the bounds

codes == <<invite, drawings>>
bots  == <<creds, editing, busy>>
own   == <<vis, password>>
page  == <<shown, own, confirm, codes, bots, dirty>>
history == <<screen, made, elsewhere>>
vars  == <<db, calls, page, excused, history>>

Gone   == [disabled |-> TRUE, is_admin |-> FALSE]
Flags  == {"find_me_in_search", "show_online"}
Fields == {"registration", "announcement"}

(***************************************************************************)
(* Requests.                                                               *)
(***************************************************************************)
Loads  == {"load", "loadRun"}
RunOps == {"createBot", "updateBot", "rotate", "deleteBot", "loadRun"}

Call(op, arg, alone) ==
    [op |-> op, arg |-> arg, phase |-> "sent", answer |-> None, before |-> vis, alone |-> alone]

\* The requests that spoil something when they overlap: the checkboxes, which one of
\* them takes back as a whole, and the dialog, which the first to end enables.
Rivals(op) == CASE op = "toggle" -> {"toggle"} [] op \in RunOps -> RunOps [] OTHER -> {}

\* Something is pressed that sends a request.  (alone: no rival ever overlaps it.)
Send(op, arg) ==
    LET rivals == {i \in DOMAIN calls : calls[i].op \in Rivals(op)}
    IN  /\ made < MaxCalls /\ made' = made + 1
        /\ calls' = Append([i \in DOMAIN calls |-> [calls[i] EXCEPT !.alone = @ /\ i \notin rivals]],
                           Call(op, arg, rivals = {}))
        /\ UNCHANGED <<db, excused, screen, elsewhere>>

\* The list is fetched again once the answer of call i has come: "loadRun" when
\* a run of the bots dialog waits for it.
ThenLoad(i, op) == calls' = Append(RemoveAt(calls, i), Call(op, None, calls[i].alone))

\* What the screen shows when it is right.
View ==
    CASE screen = "users"   -> [u \in Accounts |-> IF u \in db.gone THEN Gone ELSE db.users[u]]
      [] screen = "invites" -> [c \in Codes |-> IF db.invites[c] = "deleted" THEN None ELSE db.invites[c]]
      [] screen = "server"  -> db.settings
      [] screen = "account" -> db.devices
      [] screen = "bots"    -> db.names

Is(i, op, phase) == calls[i].op = op /\ calls[i].phase = phase

\* The answers that replace the same thing on the screen.
Kind(op) ==
    CASE op \in Loads \cup {"save"} -> "shown"
      [] op \in {"createBot", "rotate"} -> "creds"
      [] OTHER -> op

\* History: the answer to call i overtakes one that was served before it.
Overtakes(i) == \E j \in 1..(i - 1) : calls[j].phase = "served" /\ Kind(calls[j].op) = Kind(calls[i].op)

Init ==
    /\ screen \in Screens
    /\ db = [users    |-> [u \in Accounts |-> [disabled |-> FALSE, is_admin |-> u = Me]], gone |-> {},
             invites  |-> [c \in Codes |-> IF c \in OldCodes THEN "unused" ELSE None],
             settings |-> [f \in Fields |-> 0],
             devices  |-> Devices, flags |-> [f \in Flags |-> TRUE],
             names    |-> [b \in Bots |-> IF b \in OldBots THEN 1 ELSE 0],
             tokens   |-> [b \in Bots |-> IF b \in OldBots THEN 1 ELSE 0]]
    /\ vis = [f \in Flags |-> TRUE] /\ calls = <<Call("load", None, TRUE)>>
    /\ shown = None /\ password = FALSE /\ confirm = None
    /\ invite = [codes |-> {}, showQr |-> TRUE, picked |-> None, qr |-> None] /\ drawings = {}
    /\ creds = None /\ editing = None /\ busy = FALSE
    /\ dirty = FALSE /\ excused = FALSE /\ made = 0 /\ elsewhere = 0

(***************************************************************************)
(* Users.                                                                  *)
(***************************************************************************)
\* The buttons of a row: none on one's own, no rights for a bot.  Each flag
\* button asks for the opposite of what the row shows.
UserRow(u) ==
    IF shown = None \/ u = Me THEN {}
    ELSE IF shown[u] = Gone THEN {}
    ELSE {[op |-> "patch", arg |-> [user |-> u, flag |-> f, on |-> ~shown[u][f]]] :
              f \in {"disabled"} \cup IF u \in BotAccounts THEN {} ELSE {"is_admin"}}
         \cup {[op |-> "logoutUser", arg |-> u]}

PressUser ==
    /\ screen = "users"
    /\ \E u \in Accounts : \E b \in UserRow(u) : Send(b.op, b.arg)
    /\ UNCHANGED page

AskDeleteUser(u) ==
    /\ screen = "users" /\ UserRow(u) # {} /\ confirm = None
    /\ confirm' = u
    /\ UNCHANGED <<db, calls, shown, own, codes, bots, dirty, excused, history>>

DeleteUser ==
    /\ screen = "users" /\ confirm # None
    /\ confirm' = None
    /\ Send("deleteUser", confirm)
    /\ UNCHANGED <<shown, own, codes, bots, dirty>>

(***************************************************************************)
(* Invites.                                                                *)
(***************************************************************************)
plate == invite.showQr /\ invite.picked # None

\* Mutant: the drawing under way is not put aside.
RedrawForgetful(next) ==
    LET wanted == next.showQr /\ next.picked # None
    IN  IF wanted = plate /\ (wanted => next.picked = invite.picked)
        THEN invite' = next /\ drawings' = drawings
        ELSE IF wanted
        THEN invite' = next /\ drawings' = drawings \cup {[code |-> next.picked, alive |-> TRUE]}
        ELSE invite' = [next EXCEPT !.qr = None] /\ drawings' = drawings

\* The effect on [plate, link]: the drawing under way is put aside, and the
\* code now picked is drawn.  Until it is, the last one stays on the plate.
Redraw(next) ==
    LET aside == {[d EXCEPT !.alive = FALSE] : d \in drawings}
        wanted == next.showQr /\ next.picked # None
    IN  IF wanted = plate /\ (wanted => next.picked = invite.picked)
        THEN invite' = next /\ drawings' = drawings
        ELSE IF wanted
        THEN invite' = next /\ drawings' = aside \cup {[code |-> next.picked, alive |-> TRUE]}
        ELSE invite' = [next EXCEPT !.qr = None] /\ drawings' = aside

\* The drawing of a QR code ends, with a code or with an error.
Drawn ==
    /\ \E d \in drawings, ok \in BOOLEAN :
          /\ drawings' = drawings \ {d}
          /\ invite' = IF d.alive THEN [invite EXCEPT !.qr = IF ok THEN d.code ELSE None] ELSE invite
    /\ UNCHANGED <<db, calls, shown, own, confirm, bots, dirty, excused, history>>

CreateInvites ==
    /\ screen = "invites" /\ \E n \in 1..2 : Send("createInvites", n)
    /\ Redraw([invite EXCEPT !.picked = None])
    /\ UNCHANGED <<shown, own, confirm, bots, dirty>>

ShowQr(on) ==
    /\ screen = "invites" /\ on # invite.showQr
    /\ Redraw([invite EXCEPT !.showQr = on, !.picked = IF on THEN @ ELSE None])
    /\ UNCHANGED <<db, calls, shown, own, confirm, bots, dirty, excused, history>>

\* The plate next to the chips: a code in letters and, once it is drawn, a QR code.
Plate == IF plate THEN {[code |-> invite.picked, qr |-> invite.qr]} ELSE {}

\* The rows with buttons: the invites not used yet.
OpenRows == {c \in Codes : shown # None /\ shown[c] = "unused"}

\* The codes with a QR button: the chips of the new ones and these rows.
Pickable == IF invite.showQr THEN invite.codes \cup OpenRows ELSE {}

Pick(c) ==
    /\ screen = "invites" /\ c \in Pickable
    /\ Redraw([invite EXCEPT !.picked = c])
    /\ UNCHANGED <<db, calls, shown, own, confirm, bots, dirty, excused, history>>

DeleteInvite(c) ==
    /\ screen = "invites" /\ c \in OpenRows
    /\ Redraw(IF c = invite.picked THEN [invite EXCEPT !.picked = None] ELSE invite)
    /\ Send("deleteInvite", c)
    /\ UNCHANGED <<shown, own, confirm, bots, dirty>>

(***************************************************************************)
(* The settings of the server: one object, typed into and saved whole.     *)
(***************************************************************************)
TypeSetting(f) ==
    /\ screen = "server" /\ shown # None
    /\ \E v \in 0..1 : v # shown[f] /\ shown' = [shown EXCEPT ![f] = v]
    /\ dirty' = TRUE
    /\ UNCHANGED <<db, calls, own, confirm, codes, bots, excused, history>>

SaveSettings ==
    /\ screen = "server" /\ shown # None
    /\ Send("save", shown)
    /\ UNCHANGED page

(***************************************************************************)
(* One's own account: visibility, devices, password.                       *)
(***************************************************************************)
\* The checkbox moves at once.
SetVisibility(f) ==
    /\ screen = "account"
    /\ vis' = [vis EXCEPT ![f] = ~@]
    /\ Send("toggle", [flag |-> f, on |-> ~vis[f]])
    /\ UNCHANGED <<shown, password, confirm, codes, bots, dirty>>

SignOutDevice(d) ==
    /\ screen = "account" /\ shown # None /\ d \in shown
    /\ Send("deleteDevice", d)
    /\ UNCHANGED page

TypePassword ==
    /\ screen = "account" /\ ~password
    /\ password' = TRUE
    /\ UNCHANGED <<db, calls, shown, vis, confirm, codes, bots, dirty, excused, history>>

\* Not while authBusy, which disables the button.
SubmitPassword ==
    /\ screen = "account" /\ password /\ \A i \in DOMAIN calls : calls[i].op # "password"
    /\ \E signOutOthers \in BOOLEAN : Send("password", signOutOthers)
    /\ UNCHANGED page

(***************************************************************************)
(* One's bots.                                                             *)
(***************************************************************************)
\* The rows that are not a form.
BotRows == {b \in Bots : screen = "bots" /\ shown # None /\ shown[b] > 0 /\ (editing = None \/ editing.bot # b)}

RunBot(op, arg) ==
    /\ screen = "bots" /\ Send(op, arg)
    /\ busy' = TRUE
    /\ UNCHANGED <<shown, own, codes, creds, editing, dirty>>

\* The submit button is disabled while the dialog is busy, the others are not.
CreateBot(b) == ~busy /\ RunBot("createBot", b) /\ UNCHANGED confirm
SaveBot      == ~busy /\ editing # None /\ RunBot("updateBot", editing) /\ UNCHANGED confirm
RotateBot(b) == b \in BotRows /\ RunBot("rotate", b) /\ UNCHANGED confirm
DeleteBot    == confirm # None /\ RunBot("deleteBot", confirm) /\ confirm' = None

AskDeleteBot(b) ==
    /\ screen = "bots" /\ b \in BotRows /\ confirm = None
    /\ confirm' = b
    /\ UNCHANGED <<db, calls, shown, own, codes, bots, dirty, excused, history>>

\* "rename" opens the form of a row, with another name typed; "cancel" closes it.
EditBot(b) ==
    /\ screen = "bots"
    /\ IF editing = None \/ editing.bot # b
       THEN b \in BotRows /\ \E name \in 1..2 : editing' = [bot |-> b, name |-> name]
       ELSE editing' = None
    /\ UNCHANGED <<db, calls, shown, own, confirm, codes, creds, busy, dirty, excused, history>>

CloseCreds ==
    /\ screen = "bots" /\ creds # None /\ creds' = None
    /\ UNCHANGED <<db, calls, shown, own, confirm, codes, editing, busy, dirty, excused, history>>

Cancel ==
    /\ confirm # None /\ confirm' = None
    /\ UNCHANGED <<db, calls, shown, own, codes, bots, dirty, excused, history>>

(***************************************************************************)
(* The server.                                                             *)
(***************************************************************************)
\* Call i has been served: it goes behind the ones served before.
Served(i, answer) ==
    /\ calls' = Append(RemoveAt(calls, i), [calls[i] EXCEPT !.phase = "served", !.answer = answer])
    /\ UNCHANGED <<page, excused, history>>

\* Call i is refused after something of it was done.
Undone(i) ==
    /\ calls' = Append(RemoveAt(calls, i), [calls[i] EXCEPT !.phase = "failed"])
    /\ excused' = TRUE
    /\ UNCHANGED <<page, history>>

ServeLoad(i) == calls[i].op \in Loads /\ calls[i].phase = "sent" /\ Served(i, View) /\ UNCHANGED db

\* adminPatchUser and patchMe read every flag, and later write every flag back.
ReadFlags(i) ==
    /\ \/ Is(i, "patch", "sent") /\ calls[i].arg.user \notin db.gone
       \/ Is(i, "toggle", "sent")
    /\ LET c == calls[i]
           stored == IF c.op = "patch" THEN db.users[c.arg.user] ELSE db.flags
       IN  calls' = [calls EXCEPT ![i].phase = "read", ![i].answer = [stored EXCEPT ![c.arg.flag] = c.arg.on]]
    /\ UNCHANGED <<db, page, excused, history>>

WriteFlags(i) ==
    /\ calls[i].phase = "read"
    /\ db' = IF calls[i].op = "patch" THEN [db EXCEPT !.users[calls[i].arg.user] = calls[i].answer]
             ELSE [db EXCEPT !.flags = calls[i].answer]
    /\ Served(i, calls[i].answer)

ServeLogout(i) == Is(i, "logoutUser", "sent") /\ calls[i].arg \notin db.gone /\ Served(i, None) /\ UNCHANGED db

\* The bots somebody owns and that are still there.
BotsOf(u) == {b \in BotAccounts : BotOwner[b] = u /\ b \notin db.gone}

\* adminDeleteUser deletes the account's bots first, each by itself; one that cannot
\* be deleted is passed over.
DeleteOwnedBots(i) ==
    /\ Is(i, "deleteUser", "sent") /\ calls[i].arg \notin db.gone
    /\ \E deleted \in SUBSET BotsOf(calls[i].arg) :
          /\ db' = [db EXCEPT !.gone = @ \cup deleted]
          /\ calls' = [calls EXCEPT ![i].phase = "begun", ![i].answer = deleted]
    /\ UNCHANGED <<page, excused, history>>

\* Then the account, unless another request has deleted it meanwhile.
ServeDeleteUser(i) ==
    /\ Is(i, "deleteUser", "begun") /\ calls[i].arg \notin db.gone
    /\ db' = [db EXCEPT !.gone = @ \cup {calls[i].arg}]
    /\ Served(i, None)

\* A new code is a random one, never one there was before.  The codes are stored one by one: the first may be stored and the next not,
\* which answers with an error.
ServeCreateInvites(i) ==
    /\ Is(i, "createInvites", "sent")
    /\ \E new \in SUBSET {c \in Codes : db.invites[c] = None} :
          /\ Cardinality(new) \in 1..calls[i].arg
          /\ db' = [db EXCEPT !.invites = [c \in Codes |-> IF c \in new THEN "unused" ELSE @[c]]]
          /\ IF Cardinality(new) = calls[i].arg THEN Served(i, new) ELSE Undone(i)

ServeDeleteInvite(i) ==
    /\ Is(i, "deleteInvite", "sent") /\ db.invites[calls[i].arg] = "unused"
    /\ db' = [db EXCEPT !.invites[calls[i].arg] = "deleted"]
    /\ Served(i, None)

ServeSave(i) ==
    /\ Is(i, "save", "sent")
    /\ db' = [db EXCEPT !.settings = calls[i].arg]
    /\ Served(i, calls[i].arg)

ServeDeleteDevice(i) ==
    /\ Is(i, "deleteDevice", "sent") /\ calls[i].arg \in db.devices
    /\ db' = [db EXCEPT !.devices = @ \ {calls[i].arg}]
    /\ Served(i, None)

ServePassword(i) ==
    /\ Is(i, "password", "sent")
    /\ db' = IF calls[i].arg THEN [db EXCEPT !.devices = {}] ELSE db
    /\ Served(i, None)

ServeCreateBot(i) ==
    LET b == calls[i].arg
    IN  /\ Is(i, "createBot", "sent") /\ db.tokens[b] = 0
        /\ db' = [db EXCEPT !.names[b] = 1, !.tokens[b] = 1]
        /\ Served(i, [bot |-> b, token |-> 1])

ServeUpdateBot(i) ==
    /\ Is(i, "updateBot", "sent") /\ db.names[calls[i].arg.bot] > 0
    /\ db' = [db EXCEPT !.names[calls[i].arg.bot] = calls[i].arg.name]
    /\ Served(i, None)

ServeRotate(i) ==
    LET b == calls[i].arg
    IN  /\ Is(i, "rotate", "sent") /\ db.names[b] > 0
        /\ db' = [db EXCEPT !.tokens[b] = @ + 1]
        /\ Served(i, [bot |-> b, token |-> db.tokens[b] + 1])

ServeDeleteBot(i) ==
    /\ Is(i, "deleteBot", "sent") /\ db.names[calls[i].arg] > 0
    /\ db' = [db EXCEPT !.names[calls[i].arg] = 0]
    /\ Served(i, None)

\* Somebody else changes what the screen shows: another administrator, another
\* device of the account, the person an invite was for.
Elsewhere ==
    /\ elsewhere < MaxElsewhere /\ elsewhere' = elsewhere + 1
    /\ \/ screen = "users" /\ \E u \in Accounts \ {Me} :
             db' \in {[db EXCEPT !.gone = @ \cup {u} \cup BotsOf(u)], [db EXCEPT !.users[u].disabled = ~@]}
       \/ screen = "invites" /\ \E c \in Codes : db.invites[c] = "unused" /\ db' = [db EXCEPT !.invites[c] = "used"]
       \/ screen = "server" /\ \E f \in Fields : db' = [db EXCEPT !.settings[f] = 1 - @]
       \/ screen = "account" /\ \E d \in db.devices : db' = [db EXCEPT !.devices = @ \ {d}]
       \/ screen = "bots" /\ \E b \in Bots : db.names[b] > 0 /\ db' = [db EXCEPT !.tokens[b] = @ + 1]
    /\ excused' = TRUE
    /\ UNCHANGED <<calls, page, screen, made>>

(***************************************************************************)
(* The answers.                                                            *)
(***************************************************************************)
Answered(i, op) == Is(i, op, "served")

\* Mutant: every list that comes enables the dialog.
LoadAnsweredEnabling(i) ==
    /\ Answered(i, "load") \/ Answered(i, "loadRun")
    /\ shown' = calls[i].answer /\ busy' = FALSE
    /\ calls' = RemoveAt(calls, i) /\ excused' = (excused \/ Overtakes(i))
    /\ UNCHANGED <<db, own, confirm, codes, creds, editing, dirty, history>>

\* A list has come; the run that waited for it ends.
LoadAnswered(i) ==
    /\ Answered(i, "load") \/ Answered(i, "loadRun")
    /\ shown' = calls[i].answer /\ busy' = (busy /\ calls[i].op = "load")
    /\ calls' = RemoveAt(calls, i) /\ excused' = (excused \/ Overtakes(i))
    /\ UNCHANGED <<db, own, confirm, codes, creds, editing, dirty, history>>

\* Mutant: the list is not fetched again.
ActAnsweredQuietly(i) ==
    /\ \E op \in {"patch", "logoutUser", "deleteUser", "deleteInvite", "deleteDevice"} : Answered(i, op)
    /\ calls' = RemoveAt(calls, i)
    /\ UNCHANGED <<db, page, excused, history>>

\* act(), and the deletions of an invite and of a device: the list is fetched again.
ActAnswered(i) ==
    /\ \E op \in {"patch", "logoutUser", "deleteUser", "deleteInvite", "deleteDevice"} : Answered(i, op)
    /\ ThenLoad(i, "load")
    /\ UNCHANGED <<db, page, excused, history>>

CreateInvitesAnswered(i) ==
    /\ Answered(i, "createInvites")
    /\ invite' = [invite EXCEPT !.codes = calls[i].answer]
    /\ ThenLoad(i, "load")
    /\ UNCHANGED <<db, shown, own, confirm, drawings, bots, dirty, excused, history>>

\* What was typed since the form was sent is overwritten.
SaveAnswered(i) ==
    /\ Answered(i, "save")
    /\ shown' = calls[i].answer /\ dirty' = FALSE
    /\ calls' = RemoveAt(calls, i) /\ excused' = (excused \/ Overtakes(i))
    /\ UNCHANGED <<db, own, confirm, codes, bots, history>>

ToggleAnswered(i) ==
    /\ Answered(i, "toggle")
    /\ vis' = calls[i].answer
    /\ calls' = RemoveAt(calls, i) /\ excused' = (excused \/ Overtakes(i))
    /\ UNCHANGED <<db, shown, password, confirm, codes, bots, dirty, history>>

PasswordAnswered(i) ==
    /\ Answered(i, "password")
    /\ password' = FALSE
    /\ ThenLoad(i, "load")
    /\ UNCHANGED <<db, shown, vis, confirm, codes, bots, dirty, excused, history>>


\* The credentials are shown; a creation then fetches the bots, still busy.
CredsAnswered(i) ==
    /\ Answered(i, "createBot") \/ Answered(i, "rotate")
    /\ creds' = calls[i].answer
    /\ excused' = (excused \/ Overtakes(i))
    /\ IF calls[i].op = "rotate" THEN calls' = RemoveAt(calls, i) /\ busy' = FALSE
       ELSE ThenLoad(i, "loadRun") /\ UNCHANGED busy
    /\ UNCHANGED <<db, shown, own, confirm, codes, editing, dirty, history>>

\* A change closes the form, whichever bot it is open for by now; a deletion does not.
BotAnswered(i) ==
    /\ Answered(i, "updateBot") \/ Answered(i, "deleteBot")
    /\ editing' = IF calls[i].op = "updateBot" THEN None ELSE editing
    /\ ThenLoad(i, "loadRun")
    /\ UNCHANGED <<db, shown, own, confirm, codes, creds, busy, dirty, excused, history>>

\* A request that is refused after something of it was done, and one whose checkboxes
\* another change of a flag has overtaken.
HalfDone(c) == c.phase = "begun" /\ c.answer # {}
Crossed(c)  == c.op = "toggle" /\ ~c.alone

\* Mutant: only a run that succeeds ends.
FailsBusy(i) ==
    LET c == calls[i]
    IN  /\ calls' = RemoveAt(calls, i)
        /\ vis' = IF c.op = "toggle" THEN c.before ELSE vis
        /\ UNCHANGED busy
        /\ excused' = (excused \/ c.phase = "served" \/ c.op \in Loads \/ HalfDone(c) \/ Crossed(c))
        /\ UNCHANGED <<db, shown, password, confirm, codes, creds, editing, dirty, history>>

\* The server refuses, or the network fails before or after the server did what
\* was asked: the error is shown, a run ends, a checkbox takes the value back
\* that all of them had when it was pressed.
Fails(i) ==
    LET c == calls[i]
    IN  /\ calls' = RemoveAt(calls, i)
        /\ vis' = IF c.op = "toggle" THEN c.before ELSE vis
        /\ busy' = (busy /\ c.op \notin RunOps)
        /\ excused' = (excused \/ c.phase = "served" \/ c.op \in Loads \/ HalfDone(c) \/ Crossed(c))
        /\ UNCHANGED <<db, shown, password, confirm, codes, creds, editing, dirty, history>>

(***************************************************************************)
(* Specification.                                                          *)
(***************************************************************************)
Press ==
    \/ PressUser \/ DeleteUser \/ CreateInvites \/ SaveSettings \/ TypePassword \/ SubmitPassword
    \/ SaveBot \/ DeleteBot \/ CloseCreds \/ Cancel
    \/ \E u \in Accounts : AskDeleteUser(u)
    \/ \E on \in BOOLEAN : ShowQr(on)
    \/ \E c \in Codes : Pick(c) \/ DeleteInvite(c)
    \/ \E f \in Fields : TypeSetting(f)
    \/ \E f \in Flags : SetVisibility(f)
    \/ \E d \in Devices : SignOutDevice(d)
    \/ \E b \in Bots : CreateBot(b) \/ RotateBot(b) \/ AskDeleteBot(b) \/ EditBot(b)

Serve(i) ==
    \/ ServeLoad(i) \/ ReadFlags(i) \/ WriteFlags(i) \/ ServeLogout(i) \/ DeleteOwnedBots(i) \/ ServeDeleteUser(i)
    \/ ServeCreateInvites(i) \/ ServeDeleteInvite(i) \/ ServeSave(i) \/ ServeDeleteDevice(i) \/ ServePassword(i)
    \/ ServeCreateBot(i) \/ ServeUpdateBot(i) \/ ServeRotate(i) \/ ServeDeleteBot(i)

Answer(i) ==
    \/ LoadAnswered(i) \/ ActAnswered(i) \/ CreateInvitesAnswered(i) \/ SaveAnswered(i)
    \/ ToggleAnswered(i) \/ PasswordAnswered(i) \/ CredsAnswered(i) \/ BotAnswered(i) \/ Fails(i)

Next ==
    \/ Press \/ Drawn \/ Elsewhere
    \/ \E i \in DOMAIN calls : Serve(i) \/ Answer(i)

Spec == Init /\ [][Next]_vars

(***************************************************************************)
(* Properties.                                                             *)
(***************************************************************************)
AtRest == calls = <<>>

\* The codes there have ever been.
Created == {c \in Codes : db.invites[c] # None}

\* The runs of the bots dialog under way.
Runs == {i \in DOMAIN calls : calls[i].op \in RunOps}

\* The screen is in a state it can be in.  It asks about the deletion of something of
\* its own; the codes, the one picked and the one drawn are codes that were created.
\* The bots dialog is disabled only while it runs something, whatever ends its runs
\* (the finally of BotsDialog.tsx:91), and all the time something runs in it that no
\* other run overlaps: a list asked for before does not enable it.
Consistent ==
    /\ shown \in {None} \cup CASE screen = "users" -> [Accounts -> [disabled : BOOLEAN, is_admin : BOOLEAN]]
                               [] screen = "invites" -> [Codes -> {None, "unused", "used"}]
                               [] screen = "server" -> [Fields -> 0..1]
                               [] screen = "account" -> SUBSET Devices
                               [] screen = "bots" -> [Bots -> 0..2]
    /\ vis \in [Flags -> BOOLEAN] /\ password \in BOOLEAN /\ dirty \in BOOLEAN
    /\ confirm \in {None} \cup CASE screen = "users" -> Accounts \ {Me}
                                 [] screen = "bots" -> Bots
                                 [] OTHER -> {}
    /\ invite.codes \cup ({invite.picked, invite.qr} \ {None}) \subseteq Created
    /\ busy => Runs # {}
    /\ (\E i \in Runs : calls[i].alone) => busy


\* With no drawing under way, the QR code on the plate is the one of the code
\* written next to it (the "alive" of AdminPanel.tsx:310-324).
QrIsPicked ==
    (\A d \in drawings : ~d.alive) => \A p \in Plate : p.qr \in {None, p.code}
=============================================================================
