------------------------------- MODULE Client -------------------------------
(***************************************************************************)
(* One tab of the web client from one login to the next: the session in    *)
(* memory and in the database, the socket, the synchronisation it starts,  *)
(* the check of the session with the server and the search                 *)
(* (web/src/state/session.ts, sync.ts, search.ts, model.ts, api/ws.ts,     *)
(* api/http.ts, store/db.ts, ui/Search.tsx).                               *)
(*                                                                         *)
(* What an await was waiting for goes on when it comes, whatever happened  *)
(* meanwhile: a logout, another login, a reload of the page.  Logins are   *)
(* numbered and stand for the token, the keys and the data they brought;   *)
(* 0 stands for none.                                                      *)
(***************************************************************************)
EXTENDS Integers, FiniteSets

CONSTANTS
    Queries,      \* what can be searched for
    Scenes,       \* bound: what may happen in one behaviour, for each a set of the
                  \* words "reload", "trouble" (with the network), "poke", "search",
                  \* "password" (it is changed here), "revoke" (a session, elsewhere)
    MaxLogins,    \* bound: the logins
    MaxRuns       \* bound: the searches under way at once

ASSUME ClientAssumption == MaxLogins \in Nat \ {0} /\ MaxRuns \in Nat \ {0}

VARIABLES
    last,       \* the latest login
    valid,      \* the tokens the server takes
    disk,       \* the database: session, keys and whose data
    mem,        \* the memory: session, keys, token and whose data
    page,       \* "booting" or "ready"
    task,       \* restoreSession, login or register, establish
    change,     \* changePassword
    leaving,    \* logout
    checks,     \* refreshMe: the tokens the requests under way were sent with
    sync,       \* the login whose fullSync is under way, or 0 (syncing)
    ws,         \* the socket and its timers
    search,     \* the search
    late,       \* history: the server refused the token of an earlier login
    straggled,  \* history: a synchronisation of an ended login wrote something
    scene       \* what may happen in this behaviour

session == <<disk, mem, task, change, leaving>>
history == <<late, straggled, scene>>
vars == <<last, valid, session, page, checks, sync, ws, search, history>>

Logins == 1..MaxLogins
Fresh  == [session |-> 0, keys |-> 0, token |-> 0, data |-> {}]
Closed == [token |-> 0, stopped |-> TRUE, sock |-> "none", dead |-> FALSE, timer |-> FALSE,
           watched |-> FALSE, deadline |-> FALSE, unheard |-> FALSE, pinged |-> FALSE]
Blank  == [query |-> "", due |-> FALSE, runs |-> {}, shown |-> "", busy |-> FALSE, unlisted |-> FALSE]
NoTask == [k |-> "none", n |-> 0]
NoChange == [at |-> "none", n |-> 0, token |-> 0, again |-> FALSE]
Empty == [session |-> 0, keys |-> 0, data |-> {}]

\* The page is loaded, by somebody who is not signed in.
Init ==
    /\ last = 0 /\ valid = {}
    /\ disk = Empty /\ mem = Fresh /\ page = "booting"
    /\ task = [k |-> "restore", n |-> 0] /\ change = NoChange /\ leaving = "no"
    /\ checks = {} /\ sync = 0 /\ ws = Closed /\ search = Blank
    /\ late = FALSE /\ straggled = FALSE /\ scene \in Scenes

\* No login and no logout is under way.
AtRest == task = NoTask /\ leaving = "no"

\* refreshMe: a request carries the token there is when it is sent.
RefreshMe == checks' = checks \cup {mem.token}

(***************************************************************************)
(* api/ws.ts.                                                              *)
(***************************************************************************)
\* Mutant: the clock of the last frame runs on.
OpenedSilently(w) == [w EXCEPT !.sock = "opening", !.dead = FALSE, !.watched = TRUE, !.pinged = FALSE]

\* open: a new socket counts as heard from now.
Opened(w) == [w EXCEPT !.sock = "opening", !.dead = FALSE, !.watched = TRUE, !.unheard = FALSE,
                       !.pinged = FALSE]

Connect(w, n) == Opened([w EXCEPT !.token = n, !.stopped = FALSE])

\* close; a deadline of poke goes on.
Shut(w) == [w EXCEPT !.stopped = TRUE, !.timer = FALSE, !.watched = FALSE, !.sock = "none",
                     !.dead = FALSE, !.pinged = FALSE]

\* onclose: the next attempt comes after a delay.
Lost(w) == [w EXCEPT !.sock = "none", !.dead = FALSE, !.watched = FALSE, !.timer = TRUE,
                     !.pinged = FALSE]

Net == UNCHANGED <<last, valid, session, page, search, history>>

\* The hello of the server starts fullSync, unless one is under way.
Hello ==
    /\ ws.sock = "opening" /\ ~ws.dead /\ ws.token \in valid
    /\ ws' = [ws EXCEPT !.sock = "open", !.unheard = FALSE]
    /\ sync' = IF sync = 0 THEN mem.token ELSE sync
    /\ UNCHANGED checks /\ Net

\* Mutant: a socket closed because of its token is tried again like any other.
RefusedSilently ==
    /\ ws.sock # "none" /\ ~ws.dead /\ ws.token \notin valid
    /\ ws' = Lost(ws)
    /\ UNCHANGED <<checks, sync>> /\ Net

\* Closed with 1008: the session is checked.
Refused ==
    /\ ws.sock # "none" /\ ~ws.dead /\ ws.token \notin valid
    /\ ws' = Lost(ws)
    /\ RefreshMe
    /\ UNCHANGED sync /\ Net

\* The connection breaks, or it goes silent.
Trouble ==
    /\ "trouble" \in scene /\ ws.sock # "none"
    /\ \/ ws' = Lost(ws)
       \/ ws' = [ws EXCEPT !.dead = TRUE]
    /\ UNCHANGED <<checks, sync>> /\ Net

Frame ==
    /\ ws.sock = "open" /\ ~ws.dead /\ ws.unheard
    /\ ws' = [ws EXCEPT !.unheard = FALSE]
    /\ UNCHANGED <<checks, sync>> /\ Net

\* The delay is over.
Reconnect ==
    /\ ws.timer
    /\ ws' = Opened([ws EXCEPT !.timer = FALSE])
    /\ UNCHANGED <<checks, sync>> /\ Net

\* checkLiveness: nothing was heard for too long.
CheckLiveness ==
    /\ ws.watched /\ ws.dead
    /\ ws' = Opened(ws)
    /\ UNCHANGED <<checks, sync>> /\ Net

\* Mutant: the delay goes on.
PokeKeepsTimer ==
    /\ "poke" \in scene /\ ~ws.stopped
    /\ \/ ws.sock = "none" /\ ws' = Opened(ws)
       \/ ws.sock = "open" /\ ws' = [ws EXCEPT !.deadline = TRUE, !.unheard = TRUE, !.pinged = TRUE]
    /\ UNCHANGED <<checks, sync>> /\ Net

\* The page becomes visible or the network is back.
Poke ==
    /\ "poke" \in scene /\ ~ws.stopped
    /\ \/ ws.sock = "none" /\ ws' = Opened([ws EXCEPT !.timer = FALSE])
       \/ ws.sock = "open" /\ ws' = [ws EXCEPT !.deadline = TRUE, !.unheard = TRUE, !.pinged = TRUE]
    /\ UNCHANGED <<checks, sync>> /\ Net

\* poke's deadline: whatever socket there is now is replaced if nothing was heard.
Deadline ==
    /\ ws.deadline
    /\ ws' = IF ws.sock # "none" /\ ws.unheard THEN Opened([ws EXCEPT !.deadline = FALSE])
             ELSE [ws EXCEPT !.deadline = FALSE]
    /\ UNCHANGED <<checks, sync>> /\ Net

(***************************************************************************)
(* Signing in (state/session.ts).                                          *)
(***************************************************************************)
\* startSync, which does nothing without a session, and the check after it.
StartSync ==
    /\ ws' = IF mem.session # 0 THEN Connect(Shut(ws), mem.session) ELSE ws
    /\ RefreshMe

Step(k, n) == task' = [k |-> k, n |-> n]
Rest == UNCHANGED <<last, valid, change, sync, search, history>>

\* restoreSession reads the session and the keys.
Restore ==
    /\ task.k = "restore"
    /\ IF disk.session # 0 /\ disk.keys # 0
       THEN /\ mem' = [mem EXCEPT !.session = disk.session, !.token = disk.session, !.keys = disk.keys]
            /\ Step("load", disk.session) /\ UNCHANGED page
       ELSE /\ page' = "ready" /\ task' = NoTask /\ UNCHANGED mem
    /\ UNCHANGED <<disk, leaving, checks, ws>> /\ Rest

\* The screen to sign in, with its button unless authBusy disables it.
LoginScreen == page = "ready" /\ mem.session = 0
AuthBusy == task.k \notin {"none", "restore"} \/ change # NoChange

Asking == UNCHANGED <<disk, mem, leaving, page, change, checks, ws, sync, search, history>>

\* submit: login asks for the parameters of the key first, register does not.
Submit ==
    /\ LoginScreen /\ ~AuthBusy /\ last < MaxLogins
    /\ \E mode \in {"params", "register"} : Step(mode, 0)
    /\ UNCHANGED <<last, valid>> /\ Asking

\* They come, or none or too weak ones.
ParamsAnswered ==
    /\ task.k = "params"
    /\ Step("login", 0) \/ task' = NoTask
    /\ UNCHANGED <<last, valid>> /\ Asking

\* The server opens a session; the client may never know (no answer, or keys that
\* do not open).
Accepted ==
    /\ last' = last + 1 /\ valid' = valid \cup {last + 1}
    /\ Step("clear", last + 1) \/ task' = NoTask
    /\ Asking

LogIn    == task.k = "login" /\ Accepted
Register == task.k = "register" /\ Accepted

AuthFails ==
    /\ task.k \in {"login", "register"}
    /\ task' = NoTask
    /\ UNCHANGED <<last, valid>> /\ Asking

\* establish: clearAll, after the one of a logout,
EstablishClear ==
    /\ task.k = "clear" /\ leaving # "clear"
    /\ disk' = Empty
    /\ Step("session", task.n)
    /\ UNCHANGED <<mem, leaving, page, checks, ws>> /\ Rest

\* the session,
EstablishSession ==
    /\ task.k = "session"
    /\ disk' = [disk EXCEPT !.session = task.n]
    /\ Step("keys", task.n)
    /\ UNCHANGED <<mem, leaving, page, checks, ws>> /\ Rest

\* the keys, then all of it in memory.
EstablishKeys ==
    /\ task.k = "keys"
    /\ disk' = [disk EXCEPT !.keys = task.n]
    /\ mem' = [mem EXCEPT !.session = task.n, !.token = task.n, !.keys = task.n]
    /\ Step("load", task.n)
    /\ UNCHANGED <<leaving, page, checks, ws>> /\ Rest

\* loadLocalState, then the synchronisation starts.
Load ==
    /\ task.k = "load"
    /\ mem' = [mem EXCEPT !.data = disk.data]
    /\ StartSync
    /\ task' = NoTask /\ page' = "ready"
    /\ UNCHANGED <<disk, leaving>> /\ Rest

(***************************************************************************)
(* Signing out.                                                            *)
(***************************************************************************)
\* Mutant: the synchronisation is not stopped.
BeginLogoutConnected == leaving' = "request" /\ UNCHANGED ws

\* logout: stopSync, then the request.
BeginLogout == leaving' = "request" /\ ws' = Shut(ws)

\* The button comes with the session, but nobody reaches it before the reading of
\* the empty database (task) is over.
LogOut ==
    /\ page = "ready" /\ mem.session # 0 /\ AtRest
    /\ BeginLogout
    /\ UNCHANGED <<disk, mem, task, page, checks>> /\ Rest

\* Mutant: the conversations stay in memory.
LogoutAnsweredKeepsData ==
    /\ leaving = "request"
    /\ \/ valid' = valid \ {mem.token}
       \/ UNCHANGED valid
    /\ mem' = [Fresh EXCEPT !.data = mem.data]
    /\ leaving' = "clear"
    /\ UNCHANGED <<last, disk, task, change, page, checks, ws, sync, search, history>>

\* Mutant: the keys stay in memory.
LogoutAnsweredKeepsKeys ==
    /\ leaving = "request"
    /\ \/ valid' = valid \ {mem.token}
       \/ UNCHANGED valid
    /\ mem' = [Fresh EXCEPT !.keys = mem.keys]
    /\ leaving' = "clear"
    /\ UNCHANGED <<last, disk, task, change, page, checks, ws, sync, search, history>>

\* The answer, or none: resetState.
LogoutAnswered ==
    /\ leaving = "request"
    /\ \/ valid' = valid \ {mem.token}
       \/ UNCHANGED valid
    /\ mem' = Fresh
    /\ leaving' = "clear"
    /\ UNCHANGED <<last, disk, task, change, page, checks, ws, sync, search, history>>

\* Mutant: the session stays.
LogoutClearData ==
    /\ leaving = "clear"
    /\ disk' = [disk EXCEPT !.data = {}]
    /\ leaving' = "no"
    /\ UNCHANGED <<mem, task, page, checks, ws>> /\ Rest

\* clearAll.
LogoutClear ==
    /\ leaving = "clear"
    /\ disk' = Empty
    /\ leaving' = "no"
    /\ UNCHANGED <<mem, task, page, checks, ws>> /\ Rest

(***************************************************************************)
(* Changing the password (changePassword): a challenge, then the proof.    *)
(***************************************************************************)
Changing == UNCHANGED <<last, disk, mem, task, leaving, page, checks, ws, sync, search, history>>

\* The session and the keys are the ones of now; a request takes the token there
\* is when it is sent.
ChangePassword ==
    /\ "password" \in scene /\ page = "ready" /\ mem.session # 0 /\ ~AuthBusy
    /\ change' = [NoChange EXCEPT !.at = "challenge", !.n = mem.session, !.token = mem.token]
    /\ UNCHANGED valid /\ Changing

\* The challenge comes, or the request fails.
ChallengeAnswered ==
    /\ change.at = "challenge"
    /\ \/ change.token \in valid /\ change' = [change EXCEPT !.at = "proof", !.token = mem.token]
       \/ change' = NoChange
    /\ UNCHANGED valid /\ Changing

\* The server takes the proof of the session that signed it and may sign the
\* others out; the challenge is gone, which is tried once again; or it fails.
PasswordAnswered ==
    /\ change.at = "proof"
    /\ \/ /\ change.token = change.n /\ change.n \in valid
          /\ valid' \in {valid, {change.n}}
          /\ change' = NoChange
       \/ /\ change.token \in valid /\ ~change.again
          /\ change' = [change EXCEPT !.at = "challenge", !.again = TRUE, !.token = mem.token]
          /\ UNCHANGED valid
       \/ change' = NoChange /\ UNCHANGED valid
    /\ Changing

\* A token stops being valid: signed out elsewhere, disabled, password changed.
Revoke == \E n \in valid :
    /\ "revoke" \in scene
    /\ valid' = valid \ {n}
    /\ UNCHANGED <<last, session, page, checks, sync, ws, search, history>>

\* The answer to refreshMe: fine, with the session written again if the account
\* became an administrator or ceased to be one; refused; or none.
Checked == \E n \in checks :
    /\ checks' = checks \ {n}
    /\ \/ /\ n \in valid
          /\ disk' = IF mem.session # 0 THEN [disk EXCEPT !.session = mem.session] ELSE disk
          /\ UNCHANGED <<leaving, ws, late>>
       \/ /\ n \in valid
          /\ UNCHANGED <<disk, leaving, ws, late>>
       \/ /\ n \notin valid /\ leaving = "no"
          /\ BeginLogout
          /\ late' = (late \/ n # mem.token)
          /\ UNCHANGED disk
    /\ UNCHANGED <<last, valid, mem, task, change, page, sync, search, straggled, scene>>

CheckUnanswered == \E n \in checks :
    /\ "trouble" \in scene
    /\ checks' = checks \ {n}
    /\ UNCHANGED <<last, valid, session, page, sync, ws, search, history>>

(***************************************************************************)
(* fullSync: every answer is written, then comes the next request.         *)
(***************************************************************************)
SyncPage ==
    /\ sync # 0
    /\ disk' = [disk EXCEPT !.data = @ \cup {sync}]
    /\ mem' = [mem EXCEPT !.data = @ \cup {sync}]
    /\ sync' \in {sync, 0} \ (IF mem.token = sync THEN {} ELSE {sync})
    /\ straggled' = (straggled \/ mem.session # sync)
    /\ UNCHANGED <<last, valid, task, change, leaving, page, checks, ws, search, late, scene>>

SyncFails ==
    /\ sync # 0
    /\ sync' = 0
    /\ UNCHANGED <<last, valid, session, page, checks, ws, search, history>>

(***************************************************************************)
(* The page is loaded again.                                               *)
(***************************************************************************)
Reload ==
    /\ "reload" \in scene
    /\ mem' = Fresh /\ page' = "booting" /\ task' = [k |-> "restore", n |-> 0]
    /\ change' = NoChange /\ leaving' = "no" /\ checks' = {} /\ sync' = 0 /\ ws' = Closed /\ search' = Blank
    /\ scene' = scene \ {"reload"}
    /\ UNCHANGED <<last, valid, disk, late, straggled>>

(***************************************************************************)
(* state/search.ts and ui/Search.tsx.                                      *)
(***************************************************************************)
Searching == UNCHANGED <<last, valid, session, page, checks, sync, ws, history>>

\* Typing; the search begins a little later.
Type == \E q \in Queries \cup {""} :
    /\ "search" \in scene /\ mem.session # 0 /\ q # search.query
    /\ search' = [search EXCEPT !.query = q, !.due = TRUE]
    /\ Searching

Earlier == {[r EXCEPT !.latest = FALSE] : r \in search.runs}

\* run: later calls win.
Run ==
    /\ search.due /\ mem.session # 0 /\ Cardinality(search.runs) < MaxRuns
    /\ search' = IF search.query = ""
                 THEN [search EXCEPT !.due = FALSE, !.runs = Earlier, !.shown = "", !.busy = FALSE]
                 ELSE [search EXCEPT !.due = FALSE, !.busy = TRUE,
                                     !.runs = Earlier \cup {[query |-> search.query, latest |-> TRUE, at |-> "list"]}]
    /\ Searching

\* matchPeople: the listing has answered, or it failed and counts as switched off,
\* whichever search asked; a lookup of the exact name may follow.
Listed == \E r \in search.runs, unlisted \in BOOLEAN :
    /\ r.at = "list"
    /\ search' = [search EXCEPT !.unlisted = unlisted, !.runs = (@ \ {r}) \cup {[r EXCEPT !.at = "listed"]}]
    /\ Searching

\* reset: the search is closed.
Reset ==
    /\ search.query # "" /\ mem.session # 0
    /\ search' = [search EXCEPT !.query = "", !.due = TRUE, !.runs = Earlier, !.shown = "", !.busy = FALSE]
    /\ Searching

\* Mutant: whichever ends last is shown.
RunEndsAnyway == \E r \in search.runs :
    /\ r.at # "list"
    /\ search' = [search EXCEPT !.runs = @ \ {r}, !.shown = r.query, !.busy = FALSE]
    /\ Searching

\* An earlier search that ends late is dropped; one that ends without a session
\* fails, and its results are not shown.
RunEnds == \E r \in search.runs :
    /\ r.at # "list"
    /\ search' = IF r.latest /\ mem.session # 0
                 THEN [search EXCEPT !.runs = @ \ {r}, !.shown = r.query, !.busy = FALSE]
                 ELSE [search EXCEPT !.runs = @ \ {r}]
    /\ Searching

(***************************************************************************)
(* The specification.                                                      *)
(***************************************************************************)
Next ==
    \/ Hello \/ Refused \/ Trouble \/ Frame \/ Reconnect \/ CheckLiveness \/ Poke \/ Deadline
    \/ Restore \/ Submit \/ ParamsAnswered \/ LogIn \/ Register \/ AuthFails
    \/ EstablishClear \/ EstablishSession \/ EstablishKeys \/ Load
    \/ LogOut \/ LogoutAnswered \/ LogoutClear
    \/ ChangePassword \/ ChallengeAnswered \/ PasswordAnswered \/ Revoke \/ Checked \/ CheckUnanswered
    \/ SyncPage \/ SyncFails \/ Reload
    \/ Type \/ Run \/ Listed \/ Reset \/ RunEnds

\* Timers fire and steps that wait for the database go on; the server answers, and
\* closes the socket of a token it does not take; some check is answered in the
\* end if it is made again and again.
Fairness ==
    /\ WF_vars(Reconnect) /\ WF_vars(CheckLiveness) /\ WF_vars(LogoutAnswered) /\ WF_vars(LogoutClear)
    /\ WF_vars(Restore) /\ WF_vars(EstablishClear) /\ WF_vars(EstablishSession)
    /\ WF_vars(EstablishKeys) /\ WF_vars(Load)
    /\ SF_vars(Refused) /\ SF_vars(Checked)

Spec == Init /\ [][Next]_vars /\ Fairness

(***************************************************************************)
(* Type invariant.                                                         *)
(***************************************************************************)
Numbers == 0..MaxLogins

\* Every variable has its type; what is in memory is of one login.
TypeOK ==
    /\ last \in Numbers /\ valid \subseteq 1..last
    /\ disk \in [session : Numbers, keys : Numbers, data : SUBSET Logins]
    /\ mem \in [session : Numbers, keys : Numbers, token : Numbers, data : SUBSET Logins]
    /\ mem.keys = mem.session /\ mem.token = mem.session
    /\ page \in {"booting", "ready"} /\ leaving \in {"no", "request", "clear"}
    /\ task \in [k : {"none", "restore", "params", "login", "register", "clear", "session", "keys", "load"},
                n : Numbers]
    /\ change \in [at : {"none", "challenge", "proof"}, n : Numbers, token : Numbers, again : BOOLEAN]
    /\ checks \subseteq Numbers /\ sync \in Numbers
    /\ ws \in [token : Numbers, stopped : BOOLEAN, sock : {"none", "opening", "open"}, dead : BOOLEAN,
               timer : BOOLEAN, watched : BOOLEAN, deadline : BOOLEAN, unheard : BOOLEAN, pinged : BOOLEAN]
    /\ search \in [query : Queries \cup {""}, due : BOOLEAN, shown : Queries \cup {""}, busy : BOOLEAN,
                   unlisted : BOOLEAN,
                   runs : SUBSET [query : Queries, latest : BOOLEAN, at : {"list", "listed"}]]
    /\ late \in BOOLEAN /\ straggled \in BOOLEAN

(***************************************************************************)
(* Safety and liveness.                                                    *)
(***************************************************************************)
\* A running connection always has either a socket whose silence is watched or a
\* timer for the next attempt, and a closed one has neither (ws.ts).
Watched ==
    IF ws.stopped THEN ws.sock = "none" /\ ~ws.timer /\ ~ws.watched
    ELSE (ws.sock # "none" /\ ws.watched) # ws.timer

\* The deadline of a poke never replaces a socket other than the one it pinged,
\* though it is not cancelled when that one is replaced or closed (ws.ts:91).
DeadlineSparesOthers == ws.deadline /\ ws.unheard /\ ws.sock # "none" => ws.pinged

\* What is in memory is of one login and the socket is never left alone.
Consistent == TypeOK /\ Watched /\ DeadlineSparesOthers

\* The socket runs exactly while somebody is signed in, and with their token
\* (establish, logout, startSync); see SurvivesReload for what may break it.
SocketIsSessions == AtRest /\ ~late =>
    /\ ws.stopped = (mem.session = 0)
    /\ ~ws.stopped => ws.token = mem.session

\* What a reload would restore is what is in memory, with keys of the same login,
\* wherever earlier reloads had broken off a login or a logout; only the refusal of
\* an earlier login's token, which signs out whoever is signed in by then, may
\* break it (establish, logout, restoreSession).
SurvivesReload == AtRest /\ ~late =>
    IF disk.session # 0 /\ disk.keys # 0
    THEN disk.session = mem.session /\ disk.keys = mem.session
    ELSE mem.session = 0

\* Memory and database hold data of the login that is signed in and of no other,
\* unless a synchronisation outlived its login (fullSync goes on after stopSync);
\* see SurvivesReload for late.
DataIsOwn == AtRest /\ ~late /\ ~straggled =>
    mem.data \cup disk.data \subseteq (IF mem.session = 0 THEN {} ELSE {mem.session})

\* What is shown for a search is the answer to what is typed, in whatever order
\* searches end (run, reset).
SearchIsCurrent ==
    mem.session # 0 /\ ~search.due /\ ~search.busy => search.shown = search.query

\* A device whose session was revoked signs itself out (session.ts:208).
RevokedLeaves == \A n \in Logins : mem.session = n /\ n \notin valid ~> mem.session # n
=============================================================================
