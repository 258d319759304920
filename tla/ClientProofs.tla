---------------------------- MODULE ClientProofs ----------------------------
(***************************************************************************)
(* Theorems about Client, for any number of logins, whatever is searched   *)
(* for and whatever may happen.                                            *)
(***************************************************************************)
EXTENDS Client, TLAPS

(***************************************************************************)
(* The inductive invariant.                                                *)
(***************************************************************************)
\* The login screen, and with it a login, comes before the last login that the
\* bound allows.
LoginsCounted ==
    /\ task.k \in {"params", "login", "register"} => last < MaxLogins
    /\ task.k = "restore" => page = "booting"

\* Session and keys of two logins never meet, neither in memory nor in the database,
\* even after the refusal of an earlier login's token.
NeverMixed ==
    /\ disk.session # 0 /\ disk.keys # 0 => disk.session = disk.keys
    /\ mem.session # 0 => disk.keys \in {0, mem.session}
    /\ task.k \in {"params", "login", "register", "clear", "session", "keys"} => mem.session = 0
    /\ task.k = "session" => disk.session = 0 /\ disk.keys = 0
    /\ task.k = "keys" => disk.session \in {0, task.n} /\ disk.keys = 0

\* A running connection has a watched socket or a timer, never both; a socket goes
\* silent only while there is one.
SocketWatched ==
    /\ IF ws.stopped THEN ws.sock = "none" /\ ~ws.timer /\ ~ws.watched
       ELSE (ws.sock # "none") = ws.watched /\ ws.watched # ws.timer
    /\ ws.dead => ws.sock # "none"

\* The database holds what is in memory, or not enough to restore a login.
DiskIsOneLogin ==
    /\ mem.session # 0 => disk.session = mem.session /\ disk.keys = mem.session
    /\ mem.session = 0 /\ leaving = "no" /\ task.k # "restore" =>
          disk.session = 0 \/ disk.keys = 0

\* How far a login has come in memory and in the database.
LoginProceeds ==
    /\ task.k = "restore" => mem.session = 0 /\ leaving = "no" /\ checks = {}
    /\ task.k \in {"clear", "session", "keys", "load"} => task.n \in 1..last /\ task.n \notin checks
    /\ task.k \in {"session", "keys", "load"} => leaving = "no"
    /\ task.k = "keys" => disk.session = task.n
    /\ task.k = "load" => mem.session = task.n

\* A logout has a session to end, and has forgotten it when it clears the database.
LogoutProceeds ==
    /\ leaving = "request" => mem.session # 0 /\ task.k = "none"
    /\ leaving = "clear" => mem.session = 0

\* The socket runs for the session in memory once its data has been loaded and
\* until its logout begins.
SocketRuns ==
    /\ ws.stopped = (mem.session = 0 \/ task.k = "load" \/ leaving = "request")
    /\ ~ws.stopped => ws.token = mem.session

\* Tokens checked with the server are of logins there were.
ChecksAreOfLogins ==
    /\ checks \subseteq 1..last
    /\ mem.session <= last /\ disk.session <= last /\ disk.keys <= last

\* Nothing but the refusal of an earlier login's token breaks this.
InStep == DiskIsOneLogin /\ LoginProceeds /\ LogoutProceeds /\ SocketRuns /\ ChecksAreOfLogins

\* Data is of the login whose session and keys are next to it.
DataWithItsLogin ==
    /\ mem.data \subseteq (IF mem.session = 0 THEN {} ELSE {mem.session})
    /\ disk.data \subseteq (IF disk.session # 0 /\ disk.keys # 0 THEN {disk.session} ELSE {})

\* The latest search was for what is typed, unless another is due.
LatestIsTyped ==
    /\ \A r \in search.runs : r.latest /\ ~search.due => r.query = search.query
    /\ ~search.due /\ ~search.busy => search.shown = search.query

IInv ==
    /\ TypeOK /\ LoginsCounted /\ NeverMixed /\ SocketWatched /\ DeadlineSparesOthers /\ LatestIsTyped
    /\ ~late => InStep
    /\ ~late /\ ~straggled => DataWithItsLogin

(***************************************************************************)
(* Type correctness.                                                       *)
(***************************************************************************)
Disks    == [session : Numbers, keys : Numbers, data : SUBSET Logins]
Memories == [session : Numbers, keys : Numbers, token : Numbers, data : SUBSET Logins]
Tasks    == [k : {"none", "restore", "params", "login", "register", "clear", "session", "keys", "load"},
             n : Numbers]
Changes  == [at : {"none", "challenge", "proof"}, n : Numbers, token : Numbers, again : BOOLEAN]
Sockets  == [token : Numbers, stopped : BOOLEAN, sock : {"none", "opening", "open"}, dead : BOOLEAN,
             timer : BOOLEAN, watched : BOOLEAN, deadline : BOOLEAN, unheard : BOOLEAN, pinged : BOOLEAN]
Runs     == [query : Queries, latest : BOOLEAN, at : {"list", "listed"}]
Searches == [query : Queries \cup {""}, due : BOOLEAN, runs : SUBSET Runs, shown : Queries \cup {""},
             busy : BOOLEAN, unlisted : BOOLEAN]

\* The type invariant in parts, each about the variables that an action writes
\* together.
LoginsTyped  == last \in Numbers /\ valid \subseteq 1..last /\ checks \subseteq Numbers /\ sync \in Numbers
DiskTyped    == disk \in Disks
MemoryTyped  == mem \in Memories /\ mem.keys = mem.session /\ mem.token = mem.session
TaskTyped    == task \in Tasks /\ page \in {"booting", "ready"} /\ leaving \in {"no", "request", "clear"}
ChangeTyped  == change \in Changes
SocketTyped  == ws \in Sockets
SearchTyped  == search \in Searches
HistoryTyped == late \in BOOLEAN /\ straggled \in BOOLEAN

\* The bound on logins holds where a login begins.
Typed ==
    /\ LoginsTyped /\ DiskTyped /\ MemoryTyped /\ TaskTyped /\ ChangeTyped /\ SocketTyped
    /\ SearchTyped /\ HistoryTyped /\ LoginsCounted /\ NeverMixed

\* The parts say what the type invariant says.
LEMMA TypedIsTypeOK == Typed <=> TypeOK /\ LoginsCounted /\ NeverMixed
BY DEF Typed, TypeOK, LoginsTyped, DiskTyped, MemoryTyped, TaskTyped, ChangeTyped, SocketTyped,
       SearchTyped, HistoryTyped, Disks, Memories, Tasks, Changes, Sockets, Runs, Searches

\* What the functions on the socket return is a socket.
LEMMA SocketsStay ==
  ASSUME NEW w \in Sockets, NEW n \in Numbers
  PROVE  /\ Opened(w) \in Sockets
         /\ Shut(w) \in Sockets
         /\ Lost(w) \in Sockets
         /\ Connect(w, n) \in Sockets
BY DEF Opened, Shut, Lost, Connect, Sockets

\* The socket module writes its own variables, the checks and the synchronisation.
LEMMA NetTyped ==
  ASSUME Typed,
         Hello \/ Refused \/ Trouble \/ Frame \/ Reconnect \/ CheckLiveness \/ Poke \/ Deadline
  PROVE  Typed'
<1>1. UNCHANGED <<last, valid, disk, mem, task, change, leaving, page, search, late, straggled>>
  BY DEF Hello, Refused, Trouble, Frame, Reconnect, CheckLiveness, Poke, Deadline, Net, session, history
<1>2. (LoginsTyped /\ DiskTyped /\ MemoryTyped /\ TaskTyped /\ ChangeTyped /\ SearchTyped /\ HistoryTyped)'
  <2>1. (checks \subseteq Numbers /\ sync \in Numbers)'
    <3>1. mem.token \in Numbers
      BY DEF Typed, MemoryTyped, Memories
    <3> QED BY <3>1 DEF Typed, LoginsTyped, Hello, Refused, Trouble, Frame, Reconnect, CheckLiveness, Poke,
                    Deadline, RefreshMe
  <2> QED BY <1>1, <2>1 DEF Typed, LoginsTyped, DiskTyped, MemoryTyped, TaskTyped, ChangeTyped, SearchTyped,
                        HistoryTyped
<1>3. SocketTyped'
  <2>1. /\ ws \in Sockets
        /\ [ws EXCEPT !.timer = FALSE] \in Sockets /\ [ws EXCEPT !.deadline = FALSE] \in Sockets
        /\ [ws EXCEPT !.sock = "open", !.unheard = FALSE] \in Sockets
        /\ [ws EXCEPT !.dead = TRUE] \in Sockets /\ [ws EXCEPT !.unheard = FALSE] \in Sockets
        /\ [ws EXCEPT !.deadline = TRUE, !.unheard = TRUE, !.pinged = TRUE] \in Sockets
    BY DEF Typed, SocketTyped, Sockets
  <2>2. \A w \in Sockets : Opened(w) \in Sockets /\ Lost(w) \in Sockets
    BY DEF Opened, Lost, Sockets
  <2> QED BY <2>1, <2>2 DEF SocketTyped, Hello, Refused, Trouble, Frame, Reconnect, CheckLiveness, Poke,
                        Deadline
<1>4. LoginsCounted' /\ NeverMixed'
  BY <1>1 DEF Typed, LoginsCounted, NeverMixed
<1> QED BY <1>2, <1>3, <1>4 DEF Typed

\* Restoring a session writes the memory, the task and the page.
LEMMA RestoreTyped ==
  ASSUME Typed, Restore
  PROVE  Typed'
<1>1. UNCHANGED <<last, valid, disk, change, leaving, checks, sync, ws, search, late, straggled>>
  BY DEF Restore, Rest, history
<1>2. /\ disk.session \in Numbers /\ 0 \in Numbers
      /\ disk.session # 0 /\ disk.keys # 0 => disk.session = disk.keys
  BY ClientAssumption DEF Typed, DiskTyped, Disks, Numbers, NeverMixed
<1>3. mem \in Memories /\ mem.keys = mem.session /\ mem.token = mem.session
  BY DEF Typed, MemoryTyped
<1>4. page \in {"booting", "ready"} /\ leaving' \in {"no", "request", "clear"}
  BY <1>1 DEF Typed, TaskTyped
<1>5. MemoryTyped' /\ TaskTyped' /\ NeverMixed' /\ LoginsCounted'
  <2>1. CASE disk.session # 0 /\ disk.keys # 0
    <3>1. /\ mem' = [mem EXCEPT !.session = disk.session, !.token = disk.session, !.keys = disk.keys]
          /\ task' = [k |-> "load", n |-> disk.session] /\ page' = page
      BY <2>1 DEF Restore, Step
    <3>2. MemoryTyped' /\ mem'.session = disk.session
      BY <2>1, <3>1, <1>2, <1>3 DEF MemoryTyped, Memories
    <3>3. TaskTyped' /\ task'.k = "load"
      BY <3>1, <1>2, <1>4 DEF TaskTyped, Tasks
    <3>4. NeverMixed' /\ LoginsCounted'
      BY <1>1, <1>2, <3>2, <3>3 DEF NeverMixed, LoginsCounted
    <3> QED BY <3>2, <3>3, <3>4
  <2>2. CASE ~(disk.session # 0 /\ disk.keys # 0)
    <3>1. mem' = mem /\ page' = "ready" /\ task' = [k |-> "none", n |-> 0]
      BY <2>2 DEF Restore, NoTask
    <3>2. MemoryTyped' /\ TaskTyped' /\ task'.k = "none"
      BY <3>1, <1>2, <1>3, <1>4 DEF MemoryTyped, TaskTyped, Tasks
    <3> QED BY <3>1, <3>2, <1>1 DEF Typed, NeverMixed, LoginsCounted
  <2> QED BY <2>1, <2>2
<1> QED BY <1>1, <1>5 DEF Typed, LoginsTyped, DiskTyped, ChangeTyped, SocketTyped, SearchTyped, HistoryTyped

\* Signing in asks the server and writes nothing but the task and the logins.
LEMMA SubmitTyped ==
  ASSUME Typed, Submit \/ ParamsAnswered \/ LogIn \/ Register \/ AuthFails
  PROVE  Typed'
<1>1. UNCHANGED <<disk, mem, leaving, page, change, checks, ws, sync, search, late, straggled>>
  BY DEF Submit, ParamsAnswered, LogIn, Register, AuthFails, Accepted, Asking, history
<1>2. /\ last \in Nat /\ last <= MaxLogins /\ valid \subseteq 1..last
      /\ checks \subseteq Numbers /\ sync \in Numbers /\ MaxLogins \in Nat
  BY ClientAssumption DEF Typed, LoginsTyped, Numbers
<1>3. task \in Tasks /\ mem.session = 0 /\ last < MaxLogins
  <2>1. CASE Submit
    BY <2>1 DEF Submit, LoginScreen, Typed, TaskTyped
  <2>2. CASE ParamsAnswered \/ LogIn \/ Register \/ AuthFails
    <3>1. task.k \in {"params", "login", "register"}
      BY <2>2 DEF ParamsAnswered, LogIn, Register, AuthFails
    <3> QED BY <3>1 DEF Typed, TaskTyped, LoginsCounted, NeverMixed
  <2> QED BY <2>1, <2>2
<1>4. LoginsTyped'
  <2>1. \/ last' = last /\ valid' = valid
        \/ last' = last + 1 /\ valid' = valid \cup {last + 1}
    BY DEF Submit, ParamsAnswered, LogIn, Register, AuthFails, Accepted
  <2>2. \A n \in valid : n \in Nat /\ 1 <= n /\ n <= last
    BY <1>2
  <2>3. last' \in Nat /\ last <= last' /\ \A n \in valid' : n \in Nat /\ 1 <= n /\ n <= last'
    <3>1. last + 1 \in Nat /\ last <= last + 1 /\ 1 <= last + 1
      BY <1>2
    <3>2. CASE last' = last /\ valid' = valid
      BY <3>2, <2>2, <1>2
    <3>3. CASE last' = last + 1 /\ valid' = valid \cup {last + 1}
      <4>1. \A n \in valid' : n \in Nat /\ 1 <= n /\ n <= last + 1
        BY <3>3, <3>1, <2>2, <1>2
      <4> QED BY <3>1, <3>3, <4>1
    <3> QED BY <2>1, <3>2, <3>3
  <2> QED BY <2>1, <2>3, <1>1, <1>2, <1>3 DEF LoginsTyped, Numbers
<1>5. /\ task' \in Tasks
      /\ task'.k \in {"none", "params", "login", "register", "clear"}
      /\ task'.k \in {"params", "login", "register"} => last' = last
  <2>1. 0 \in Numbers /\ last + 1 \in Numbers
    BY <1>2, <1>3 DEF Numbers
  <2>2. \/ \E k \in {"params", "register", "login"} : task' = [k |-> k, n |-> 0] /\ last' = last
        \/ task' = [k |-> "none", n |-> 0]
        \/ task' = [k |-> "clear", n |-> last + 1]
    BY DEF Submit, ParamsAnswered, LogIn, Register, AuthFails, Accepted, Step, NoTask
  <2> QED BY <2>1, <2>2 DEF Tasks
<1>6. LoginsCounted' /\ NeverMixed'
  BY <1>1, <1>3, <1>5 DEF Typed, LoginsCounted, NeverMixed
<1> QED BY <1>1, <1>4, <1>5, <1>6 DEF Typed, DiskTyped, MemoryTyped, TaskTyped, ChangeTyped, SocketTyped,
                                  SearchTyped, HistoryTyped

\* A login writes the database in three steps, the memory in the last of them.
LEMMA EstablishTyped ==
  ASSUME Typed, EstablishClear \/ EstablishSession \/ EstablishKeys
  PROVE  Typed'
<1>1. UNCHANGED <<last, valid, change, leaving, page, checks, sync, ws, search, late, straggled>>
  BY DEF EstablishClear, EstablishSession, EstablishKeys, Rest, history
<1>2. task \in Tasks /\ task.n \in Numbers /\ 0 \in Numbers
  BY ClientAssumption DEF Typed, TaskTyped, Tasks, Numbers
<1>3. disk \in Disks
  BY DEF Typed, DiskTyped
<1>4. mem \in Memories /\ mem.session = 0 /\ mem.keys = 0 /\ mem.token = 0
  BY DEF Typed, MemoryTyped, NeverMixed, EstablishClear, EstablishSession, EstablishKeys
<1>5. DiskTyped' /\ MemoryTyped' /\ task' \in Tasks /\ NeverMixed' /\ LoginsCounted'
  <2>1. CASE EstablishClear
    <3>1. mem' = mem /\ disk' = [session |-> 0, keys |-> 0, data |-> {}]
          /\ task' = [k |-> "session", n |-> task.n]
      BY <2>1 DEF EstablishClear, Empty, Step
    <3> QED BY <3>1, <1>2, <1>4 DEF DiskTyped, Disks, MemoryTyped, Tasks, NeverMixed, LoginsCounted
  <2>2. CASE EstablishSession
    <3>1. mem' = mem /\ disk' = [disk EXCEPT !.session = task.n] /\ task' = [k |-> "keys", n |-> task.n]
      BY <2>2 DEF EstablishSession, Step
    <3>2. disk.keys = 0
      BY <2>2 DEF EstablishSession, Typed, NeverMixed
    <3>3. disk' \in Disks /\ disk'.session = task.n /\ disk'.keys = 0
      BY <3>1, <3>2, <1>2, <1>3 DEF Disks
    <3> QED BY <3>1, <3>3, <1>2, <1>4 DEF DiskTyped, MemoryTyped, Tasks, NeverMixed, LoginsCounted
  <2>3. CASE EstablishKeys
    <3>1. /\ disk' = [disk EXCEPT !.keys = task.n] /\ task' = [k |-> "load", n |-> task.n]
          /\ mem' = [mem EXCEPT !.session = task.n, !.token = task.n, !.keys = task.n]
      BY <2>3 DEF EstablishKeys, Step
    <3>2. disk.session \in {0, task.n}
      BY <2>3 DEF EstablishKeys, Typed, NeverMixed
    <3>3. disk' \in Disks /\ disk'.session = disk.session /\ disk'.keys = task.n
      BY <3>1, <1>2, <1>3 DEF Disks
    <3>4. MemoryTyped' /\ mem'.session = task.n
      BY <3>1, <1>2, <1>4 DEF MemoryTyped, Memories
    <3> QED BY <3>1, <3>2, <3>3, <3>4, <1>2 DEF DiskTyped, Tasks, NeverMixed, LoginsCounted
  <2> QED BY <2>1, <2>2, <2>3
<1> QED BY <1>1, <1>5 DEF Typed, LoginsTyped, TaskTyped, ChangeTyped, SocketTyped, SearchTyped, HistoryTyped

\* Loading starts the synchronisation.
LEMMA LoadTyped ==
  ASSUME Typed, Load
  PROVE  Typed'
<1>1. UNCHANGED <<last, valid, disk, change, leaving, sync, search, late, straggled>>
  BY DEF Load, Rest, history
<1>2. /\ mem' = [mem EXCEPT !.data = disk.data] /\ checks' = checks \cup {mem.token}
      /\ ws' = (IF mem.session # 0 THEN Connect(Shut(ws), mem.session) ELSE ws)
      /\ task' = [k |-> "none", n |-> 0] /\ page' = "ready"
  BY DEF Load, StartSync, RefreshMe, NoTask
<1>3. /\ mem \in Memories /\ mem.keys = mem.session /\ mem.token = mem.session
      /\ mem.session \in Numbers /\ mem.token \in Numbers /\ 0 \in Numbers
  BY ClientAssumption DEF Typed, MemoryTyped, Memories, Numbers
<1>4. MemoryTyped' /\ mem'.session = mem.session
  <2>1. disk.data \in SUBSET Logins
    BY DEF Typed, DiskTyped, Disks
  <2> QED BY <2>1, <1>2, <1>3 DEF MemoryTyped, Memories
<1>5. SocketTyped'
  BY <1>2, <1>3, SocketsStay DEF Typed, SocketTyped
<1>6. LoginsTyped' /\ TaskTyped'
  BY <1>1, <1>2, <1>3 DEF Typed, LoginsTyped, TaskTyped, Tasks
<1>7. LoginsCounted' /\ NeverMixed'
  BY <1>1, <1>2, <1>4 DEF Typed, LoginsCounted, NeverMixed
<1> QED BY <1>1, <1>4, <1>5, <1>6, <1>7 DEF Typed, DiskTyped, ChangeTyped, SearchTyped, HistoryTyped

\* Signing out stops the socket, forgets what is in memory, then what is stored.
LEMMA LogoutTyped ==
  ASSUME Typed, LogOut \/ LogoutAnswered \/ LogoutClear
  PROVE  Typed'
<1>1. UNCHANGED <<last, task, page, change, checks, sync, search, late, straggled>>
  BY DEF LogOut, LogoutAnswered, LogoutClear, Rest, history
<1>2. TaskTyped' /\ LoginsTyped'
  <2>1. leaving' \in {"no", "request", "clear"} /\ valid' \subseteq valid
    BY DEF LogOut, BeginLogout, LogoutAnswered, LogoutClear, Rest
  <2> QED BY <2>1, <1>1 DEF Typed, TaskTyped, LoginsTyped
<1>3. DiskTyped' /\ MemoryTyped' /\ SocketTyped' /\ NeverMixed'
  <2>1. 0 \in Numbers
    BY ClientAssumption DEF Numbers
  <2>2. CASE LogOut
    <3>1. disk' = disk /\ mem' = mem /\ ws' = Shut(ws)
      BY <2>2 DEF LogOut, BeginLogout
    <3>2. SocketTyped'
      BY <3>1, <2>1, SocketsStay DEF Typed, SocketTyped
    <3> QED BY <3>1, <3>2, <1>1 DEF Typed, DiskTyped, MemoryTyped, NeverMixed
  <2>3. CASE LogoutAnswered
    <3>1. disk' = disk /\ ws' = ws /\ mem' = [session |-> 0, keys |-> 0, token |-> 0, data |-> {}]
      BY <2>3 DEF LogoutAnswered, Fresh
    <3> QED BY <3>1, <2>1, <1>1 DEF Typed, DiskTyped, MemoryTyped, Memories, SocketTyped, NeverMixed
  <2>4. CASE LogoutClear
    <3>1. mem' = mem /\ ws' = ws /\ disk' = [session |-> 0, keys |-> 0, data |-> {}]
      BY <2>4 DEF LogoutClear, Empty
    <3> QED BY <3>1, <2>1, <1>1 DEF Typed, DiskTyped, Disks, MemoryTyped, SocketTyped, NeverMixed
  <2> QED BY <2>2, <2>3, <2>4
<1>4. LoginsCounted'
  BY <1>1 DEF Typed, LoginsCounted
<1> QED BY <1>1, <1>2, <1>3, <1>4 DEF Typed, ChangeTyped, SearchTyped, HistoryTyped

\* Changing the password writes the change and the tokens that are valid.
LEMMA ChangeStepTyped ==
  ASSUME Typed, ChangePassword \/ ChallengeAnswered \/ PasswordAnswered
  PROVE  Typed'
<1>1. UNCHANGED <<last, disk, mem, task, leaving, page, checks, ws, sync, search, late, straggled>>
  BY DEF ChangePassword, ChallengeAnswered, PasswordAnswered, Changing, history
<1>2. valid' \subseteq valid
  BY DEF ChangePassword, ChallengeAnswered, PasswordAnswered
<1>3. ChangeTyped'
  <2>1. mem.token \in Numbers /\ mem.session \in Numbers /\ 0 \in Numbers
    BY ClientAssumption DEF Typed, MemoryTyped, Memories, Numbers
  <2>2. change \in Changes
    BY DEF Typed, ChangeTyped
  <2>3. NoChange \in Changes
    BY <2>1 DEF NoChange, Changes
  <2>4. \A a \in {"challenge", "proof"}, b \in BOOLEAN, n \in Numbers :
           /\ [change EXCEPT !.at = "proof", !.token = n] \in Changes
           /\ [change EXCEPT !.at = "challenge", !.again = TRUE, !.token = n] \in Changes
    BY <2>2 DEF Changes
  <2>5. [NoChange EXCEPT !.at = "challenge", !.n = mem.session, !.token = mem.token] \in Changes
    BY <2>1, <2>3 DEF Changes
  <2> QED BY <2>1, <2>3, <2>4, <2>5 DEF ChangeTyped, ChangePassword, ChallengeAnswered, PasswordAnswered
<1>4. LoginsTyped'
  BY <1>1, <1>2 DEF Typed, LoginsTyped
<1>5. LoginsCounted' /\ NeverMixed'
  BY <1>1 DEF Typed, LoginsCounted, NeverMixed
<1> QED BY <1>1, <1>3, <1>4, <1>5 DEF Typed, DiskTyped, MemoryTyped, TaskTyped, SocketTyped, SearchTyped,
                                  HistoryTyped

\* A check that is answered may write the session or begin a logout.
LEMMA CheckTyped ==
  ASSUME Typed, Revoke \/ Checked \/ CheckUnanswered
  PROVE  Typed'
<1>1. UNCHANGED <<last, mem, task, change, page, sync, search, straggled>>
  BY DEF Revoke, Checked, CheckUnanswered, session, history
<1>2. /\ valid' \subseteq valid /\ checks' \subseteq checks
      /\ leaving' \in {leaving, "request"}
      /\ ws' \in {ws, Shut(ws)}
      /\ disk' = disk \/ (mem.session # 0 /\ disk' = [disk EXCEPT !.session = mem.session])
  <2>1. CASE Revoke
    BY <2>1 DEF Revoke, session
  <2>2. CASE Checked
    BY <2>2 DEF Checked, BeginLogout
  <2>3. CASE CheckUnanswered
    BY <2>3 DEF CheckUnanswered, session
  <2> QED BY <2>1, <2>2, <2>3
<1>3. LoginsTyped' /\ TaskTyped'
  BY <1>1, <1>2 DEF Typed, LoginsTyped, TaskTyped
<1>4. SocketTyped'
  <2>1. 0 \in Numbers
    BY ClientAssumption DEF Numbers
  <2> QED BY <2>1, <1>2, SocketsStay DEF Typed, SocketTyped
<1>5. DiskTyped' /\ NeverMixed'
  <2>1. CASE disk' = disk
    BY <2>1, <1>1 DEF Typed, DiskTyped, NeverMixed
  <2>2. CASE mem.session # 0 /\ disk' = [disk EXCEPT !.session = mem.session]
    <3>1. disk \in Disks /\ mem.session \in Numbers
      BY DEF Typed, DiskTyped, MemoryTyped, Memories
    <3>2. disk' \in Disks /\ disk'.session = mem.session /\ disk'.keys = disk.keys
      BY <2>2, <3>1 DEF Disks
    <3> QED BY <2>2, <3>2, <1>1 DEF Typed, DiskTyped, NeverMixed
  <2> QED BY <1>2, <2>1, <2>2
<1>6. LoginsCounted'
  BY <1>1 DEF Typed, LoginsCounted
<1>7. HistoryTyped'
  <2>1. late \in BOOLEAN /\ straggled \in BOOLEAN
    BY DEF Typed, HistoryTyped
  <2>2. late' = late \/ \E n \in checks : late' = (late \/ n # mem.token)
    BY DEF Revoke, Checked, CheckUnanswered, history
  <2>3. late' \in BOOLEAN
    BY <2>1, <2>2
  <2> QED BY <2>1, <2>3, <1>1 DEF HistoryTyped
<1> QED BY <1>1, <1>3, <1>4, <1>5, <1>6, <1>7 DEF Typed, MemoryTyped, ChangeTyped, SearchTyped

\* The synchronisation writes data, and a reload starts from nothing but the database.
LEMMA SyncTyped ==
  ASSUME Typed, SyncPage \/ SyncFails \/ Reload
  PROVE  Typed'
<1>1. CASE SyncPage
  <2>1. UNCHANGED <<last, valid, task, change, leaving, page, checks, ws, search, late>>
    BY <1>1 DEF SyncPage
  <2>2. sync \in Logins /\ 0 \in Numbers
    BY <1>1, ClientAssumption DEF SyncPage, Typed, LoginsTyped, Numbers, Logins
  <2>3. disk \in Disks /\ mem \in Memories /\ mem.keys = mem.session /\ mem.token = mem.session
    BY DEF Typed, DiskTyped, MemoryTyped
  <2>4. DiskTyped' /\ disk'.session = disk.session /\ disk'.keys = disk.keys
    BY <1>1, <2>2, <2>3 DEF SyncPage, DiskTyped, Disks
  <2>5. MemoryTyped' /\ mem'.session = mem.session
    BY <1>1, <2>2, <2>3 DEF SyncPage, MemoryTyped, Memories
  <2>6. LoginsTyped' /\ HistoryTyped'
    BY <1>1, <2>1, <2>2 DEF SyncPage, Typed, LoginsTyped, HistoryTyped
  <2>7. LoginsCounted' /\ NeverMixed'
    BY <2>1, <2>4, <2>5 DEF Typed, LoginsCounted, NeverMixed
  <2> QED BY <2>1, <2>4, <2>5, <2>6, <2>7 DEF Typed, TaskTyped, ChangeTyped, SocketTyped, SearchTyped
<1>2. CASE SyncFails
  <2>1. UNCHANGED <<last, valid, disk, mem, task, change, leaving, page, checks, ws, search, late, straggled>>
        /\ sync' = 0 /\ 0 \in Numbers
    BY <1>2, ClientAssumption DEF SyncFails, session, history, Numbers
  <2> QED BY <2>1 DEF Typed, LoginsTyped, DiskTyped, MemoryTyped, TaskTyped, ChangeTyped, SocketTyped,
                      SearchTyped, HistoryTyped, LoginsCounted, NeverMixed
<1>3. CASE Reload
  <2>1. UNCHANGED <<last, valid, disk, late, straggled>>
        /\ mem' = Fresh /\ page' = "booting" /\ task' = [k |-> "restore", n |-> 0] /\ change' = NoChange
        /\ leaving' = "no" /\ checks' = {} /\ sync' = 0 /\ ws' = Closed /\ search' = Blank
    BY <1>3 DEF Reload
  <2>2. 0 \in Numbers
    BY ClientAssumption DEF Numbers
  <2>3. LoginsTyped' /\ DiskTyped' /\ MemoryTyped' /\ TaskTyped' /\ HistoryTyped'
    BY <2>1, <2>2 DEF Typed, LoginsTyped, DiskTyped, MemoryTyped, Memories, TaskTyped, Tasks, HistoryTyped, Fresh
  <2>4. ChangeTyped' /\ SocketTyped' /\ SearchTyped'
    BY <2>1, <2>2 DEF ChangeTyped, Changes, NoChange, SocketTyped, Sockets, Closed, SearchTyped, Searches, Blank
  <2>5. LoginsCounted' /\ NeverMixed'
    BY <2>1 DEF Typed, LoginsCounted, NeverMixed, Fresh
  <2> QED BY <2>3, <2>4, <2>5 DEF Typed
<1> QED BY <1>1, <1>2, <1>3

\* A search writes nothing else.
LEMMA SearchWritesSearch ==
  ASSUME Type \/ Run \/ Listed \/ Reset \/ RunEnds
  PROVE  UNCHANGED <<last, valid, disk, mem, task, change, leaving, page, checks, sync, ws, late, straggled>>
BY DEF Type, Run, Listed, Reset, RunEnds, Searching, session, history

\* The search writes its own variable only, and that one keeps its type.
LEMMA SearchStepTyped ==
  ASSUME Typed, Type \/ Run \/ Listed \/ Reset \/ RunEnds
  PROVE  Typed'
<1>1. UNCHANGED <<last, valid, disk, mem, task, change, leaving, page, checks, sync, ws, late, straggled>>
  BY SearchWritesSearch
<1>2. search \in Searches
  BY DEF Typed, SearchTyped
<1>3. Earlier \in SUBSET Runs
  BY <1>2 DEF Earlier, Searches, Runs
<1>4. SearchTyped'
  <2>1. CASE Type
    BY <2>1, <1>2 DEF Type, SearchTyped, Searches
  <2>2. CASE Run
    <3>1. [query |-> search.query, latest |-> TRUE, at |-> "list"] \in Runs \/ search.query = ""
      BY <1>2 DEF Searches, Runs
    <3> QED BY <2>2, <3>1, <1>2, <1>3 DEF Run, SearchTyped, Searches
  <2>3. CASE Listed
    <3>1. PICK r \in search.runs, unlisted \in BOOLEAN :
             search' = [search EXCEPT !.unlisted = unlisted,
                                      !.runs = (@ \ {r}) \cup {[r EXCEPT !.at = "listed"]}]
      BY <2>3 DEF Listed
    <3>2. [r EXCEPT !.at = "listed"] \in Runs
      BY <1>2 DEF Searches, Runs
    <3> QED BY <3>1, <3>2, <1>2 DEF SearchTyped, Searches
  <2>4. CASE Reset
    BY <2>4, <1>2, <1>3 DEF Reset, SearchTyped, Searches
  <2>5. CASE RunEnds
    <3>1. PICK r \in search.runs :
             \/ search' = [search EXCEPT !.runs = @ \ {r}, !.shown = r.query, !.busy = FALSE]
             \/ search' = [search EXCEPT !.runs = @ \ {r}]
      BY <2>5 DEF RunEnds
    <3>2. r.query \in Queries
      BY <1>2 DEF Searches, Runs
    <3> QED BY <3>1, <3>2, <1>2 DEF SearchTyped, Searches
  <2> QED BY <2>1, <2>2, <2>3, <2>4, <2>5
<1>5. LoginsCounted' /\ NeverMixed'
  BY <1>1 DEF Typed, LoginsCounted, NeverMixed
<1> QED BY <1>1, <1>4, <1>5 DEF Typed, LoginsTyped, DiskTyped, MemoryTyped, TaskTyped, ChangeTyped, SocketTyped,
                                HistoryTyped

\* Every step keeps the types.
LEMMA TypedStep ==
  ASSUME Typed, [Next]_vars
  PROVE  Typed'
<1>1. CASE UNCHANGED vars
  BY <1>1 DEF Typed, LoginsTyped, DiskTyped, MemoryTyped, TaskTyped, ChangeTyped, SocketTyped, SearchTyped,
              HistoryTyped, LoginsCounted, NeverMixed, vars, session, history
<1> QED BY <1>1, NetTyped, RestoreTyped, SubmitTyped, EstablishTyped, LoadTyped, LogoutTyped, ChangeStepTyped,
           CheckTyped, SyncTyped, SearchStepTyped DEF Next

(***************************************************************************)
(* The socket is never left alone.                                         *)
(***************************************************************************)
\* What the two parts of the invariant about the socket say of any socket.
Attended(w) ==
    /\ IF w.stopped THEN w.sock = "none" /\ ~w.timer /\ ~w.watched
       ELSE (w.sock # "none") = w.watched /\ w.watched # w.timer
    /\ w.dead => w.sock # "none"
    /\ w.deadline /\ w.unheard /\ w.sock # "none" => w.pinged

\* Every operation of the socket module leaves it attended: a new socket is heard
\* from now, so a deadline left from an earlier one does not replace it.
LEMMA OperationsAttend ==
  ASSUME NEW w \in Sockets
  PROVE  /\ Attended(Shut(w))
         /\ \A n \in Numbers : Attended(Connect(Shut(w), n))
         /\ Attended(w) /\ w.timer => Attended(Opened([w EXCEPT !.timer = FALSE]))
         /\ Attended(w) /\ ~w.stopped => Attended(Opened([w EXCEPT !.timer = FALSE]))
         /\ Attended(w) /\ ~w.stopped => Attended(Lost(w))
         /\ Attended(w) /\ w.sock # "none" => /\ ~w.stopped
                                              /\ Attended(Opened(w)) /\ Attended(Opened([w EXCEPT !.deadline = FALSE]))
                                              /\ Attended([w EXCEPT !.dead = TRUE])
         /\ Attended(w) => Attended([w EXCEPT !.unheard = FALSE]) /\ Attended([w EXCEPT !.deadline = FALSE])
         /\ Attended(w) /\ w.sock = "opening" => Attended([w EXCEPT !.sock = "open", !.unheard = FALSE])
         /\ Attended(w) /\ w.sock = "open" => Attended([w EXCEPT !.deadline = TRUE, !.unheard = TRUE, !.pinged = TRUE])
<1> USE DEF Sockets, Attended
<1>1. Attended(Shut(w)) /\ \A n \in Numbers : Attended(Connect(Shut(w), n))
  BY DEF Shut, Connect, Opened
<1>2. ASSUME Attended(w)
      PROVE  /\ w.timer => ~w.stopped
             /\ ~w.stopped => Attended(Opened([w EXCEPT !.timer = FALSE]))
             /\ ~w.stopped => Attended(Lost(w))
  BY <1>2 DEF Opened, Lost
<1>3. ASSUME Attended(w), w.sock # "none"
      PROVE  /\ ~w.stopped
             /\ Attended(Opened(w)) /\ Attended(Opened([w EXCEPT !.deadline = FALSE]))
             /\ Attended([w EXCEPT !.dead = TRUE])
  BY <1>3 DEF Opened
<1>4. ASSUME Attended(w)
      PROVE  /\ Attended([w EXCEPT !.unheard = FALSE]) /\ Attended([w EXCEPT !.deadline = FALSE])
             /\ w.sock = "opening" => Attended([w EXCEPT !.sock = "open", !.unheard = FALSE])
             /\ w.sock = "open" => Attended([w EXCEPT !.deadline = TRUE, !.unheard = TRUE, !.pinged = TRUE])
  BY <1>4
<1> QED BY <1>1, <1>2, <1>3, <1>4

\* No step leaves a running socket without a timer, an attempt or a deadline.
LEMMA AttendedStep ==
  ASSUME Typed, Attended(ws), [Next]_vars
  PROVE  Attended(ws')
<1>1. ws \in Sockets /\ (mem.session # 0 => mem.session \in Numbers)
  BY DEF Typed, SocketTyped, MemoryTyped, Memories
<1>2. CASE Hello \/ Trouble \/ Frame
  BY <1>2, <1>1, OperationsAttend DEF Hello, Trouble, Frame
<1>3. CASE Refused \/ Reconnect \/ Deadline
  BY <1>3, <1>1, OperationsAttend DEF Refused, Reconnect, Deadline
<1>4. CASE CheckLiveness
  BY <1>4, <1>1, OperationsAttend DEF CheckLiveness, Attended
<1>5. CASE Poke
  BY <1>5, <1>1, OperationsAttend DEF Poke
<1>6. CASE Load \/ LogOut \/ Checked
  BY <1>6, <1>1, OperationsAttend DEF Load, StartSync, LogOut, BeginLogout, Checked
<1>7. CASE Reload
  BY <1>7 DEF Reload, Closed, Attended
<1>8. CASE \/ Restore \/ Submit \/ ParamsAnswered \/ LogIn \/ Register \/ AuthFails
           \/ EstablishClear \/ EstablishSession \/ EstablishKeys
  <2>1. ws' = ws
    BY <1>8 DEF Restore, Submit, ParamsAnswered, LogIn, Register, AuthFails, Accepted, Asking,
       EstablishClear, EstablishSession, EstablishKeys
  <2> QED BY <2>1
<1>9. CASE Type \/ Run \/ Listed \/ Reset \/ RunEnds
  BY <1>9, SearchWritesSearch
<1>10. CASE \/ LogoutAnswered \/ LogoutClear \/ ChangePassword \/ ChallengeAnswered \/ PasswordAnswered
            \/ Revoke \/ CheckUnanswered \/ SyncPage \/ SyncFails \/ UNCHANGED vars
  <2>1. ws' = ws
    BY <1>10 DEF LogoutAnswered, LogoutClear, ChangePassword, ChallengeAnswered, PasswordAnswered, Changing,
       Revoke, CheckUnanswered, SyncPage, SyncFails, vars
  <2> QED BY <2>1
<1> QED BY <1>2, <1>3, <1>4, <1>5, <1>6, <1>7, <1>8, <1>9, <1>10 DEF Next

(***************************************************************************)
(* What is shown for a search is for what is typed.                        *)
(***************************************************************************)
\* The latest search stays for what is typed, unless another is due.
LEMMA LatestIsTypedStep ==
  ASSUME Typed, LatestIsTyped, [Next]_vars
  PROVE  LatestIsTyped'
<1>1. search \in Searches
  BY DEF Typed, SearchTyped
<1>2. \A r \in Earlier : ~r.latest
  BY <1>1 DEF Earlier, Searches, Runs
<1>3. CASE Type
  BY <1>3, <1>1 DEF Type, LatestIsTyped, Searches
<1>4. CASE Run
  <2>1. CASE search.query = ""
    BY <2>1, <1>4, <1>1, <1>2 DEF Run, LatestIsTyped, Searches
  <2>2. CASE search.query # ""
    <3> DEFINE s == [query |-> search.query, latest |-> TRUE, at |-> "list"]
    <3>1. s.query = search.query
      OBVIOUS
    <3>2. /\ search'.runs = Earlier \cup {s}
          /\ search'.query = search.query /\ search'.busy = TRUE
      BY <2>2, <1>4, <1>1 DEF Run, Searches
    <3> HIDE DEF s
    <3> QED BY <3>1, <3>2, <1>2 DEF LatestIsTyped
  <2> QED BY <2>1, <2>2
<1>5. CASE Listed
  <2>1. PICK r \in search.runs, unlisted \in BOOLEAN :
           search' = [search EXCEPT !.unlisted = unlisted,
                                    !.runs = (@ \ {r}) \cup {[r EXCEPT !.at = "listed"]}]
    BY <1>5 DEF Listed
  <2> DEFINE s == [r EXCEPT !.at = "listed"]
  <2>2. s.latest = r.latest /\ s.query = r.query
    BY <1>1 DEF Searches, Runs
  <2>3. /\ search'.runs = (search.runs \ {r}) \cup {s}
        /\ search'.query = search.query /\ search'.due = search.due
        /\ search'.busy = search.busy /\ search'.shown = search.shown
    BY <2>1, <1>1 DEF Searches
  <2> HIDE DEF s
  <2> QED BY <2>2, <2>3 DEF LatestIsTyped
<1>6. CASE Reset
  BY <1>6, <1>1, <1>2 DEF Reset, LatestIsTyped, Searches
<1>7. CASE RunEnds
  <2>1. PICK r \in search.runs :
           search' = IF r.latest /\ mem.session # 0
                     THEN [search EXCEPT !.runs = @ \ {r}, !.shown = r.query, !.busy = FALSE]
                     ELSE [search EXCEPT !.runs = @ \ {r}]
    BY <1>7 DEF RunEnds
  <2>2. CASE r.latest /\ mem.session # 0
    BY <2>1, <2>2, <1>1 DEF LatestIsTyped, Searches
  <2>3. CASE ~(r.latest /\ mem.session # 0)
    BY <2>1, <2>3, <1>1 DEF LatestIsTyped, Searches
  <2> QED BY <2>2, <2>3
<1>8. CASE Reload
  BY <1>8 DEF Reload, Blank, LatestIsTyped
<1>9. CASE Hello \/ Refused \/ Trouble \/ Frame \/ Reconnect \/ CheckLiveness \/ Poke \/ Deadline
  <2>1. search' = search
    BY <1>9 DEF Hello, Refused, Trouble, Frame, Reconnect, CheckLiveness, Poke, Deadline, Net
  <2> QED BY <2>1 DEF LatestIsTyped
<1>10. CASE \/ Restore \/ Submit \/ ParamsAnswered \/ LogIn \/ Register \/ AuthFails
            \/ EstablishClear \/ EstablishSession \/ EstablishKeys \/ Load
  <2>1. search' = search
    BY <1>10 DEF Restore, Submit, ParamsAnswered, LogIn, Register, AuthFails, Accepted, Asking,
       EstablishClear, EstablishSession, EstablishKeys, Load, Rest
  <2> QED BY <2>1 DEF LatestIsTyped
<1>11. CASE \/ LogOut \/ LogoutAnswered \/ LogoutClear \/ ChangePassword \/ ChallengeAnswered
            \/ PasswordAnswered \/ Revoke \/ Checked \/ CheckUnanswered \/ SyncPage \/ SyncFails
            \/ UNCHANGED vars
  <2>1. search' = search
    BY <1>11 DEF LogOut, LogoutAnswered, LogoutClear, Rest, ChangePassword, ChallengeAnswered,
       PasswordAnswered, Changing, Revoke, Checked, CheckUnanswered, SyncPage, SyncFails, vars
  <2> QED BY <2>1 DEF LatestIsTyped
<1> QED BY <1>3, <1>4, <1>5, <1>6, <1>7, <1>8, <1>9, <1>10, <1>11 DEF Next

(***************************************************************************)
(* Memory, database and socket go together.                                *)
(***************************************************************************)
\* The socket's own operations leave alone whether it runs and with which token.
LEMMA NetInStep ==
  ASSUME Typed, Attended(ws), InStep,
         Hello \/ Refused \/ Trouble \/ Frame \/ Reconnect \/ CheckLiveness \/ Poke \/ Deadline
  PROVE  InStep'
<1>1. UNCHANGED <<last, disk, mem, task, leaving>>
  BY DEF Hello, Refused, Trouble, Frame, Reconnect, CheckLiveness, Poke, Deadline, Net, session
<1>2. ws'.stopped = ws.stopped /\ ws'.token = ws.token
  BY DEF Typed, SocketTyped, Sockets, Hello, Refused, Trouble, Frame, Reconnect, CheckLiveness, Poke, Deadline,
     Opened, Lost
<1>3. checks' = checks \/ (checks' = checks \cup {mem.token} /\ ~ws.stopped)
  <2>1. CASE Refused
    BY <2>1 DEF Refused, RefreshMe, Attended
  <2>2. CASE Hello \/ Trouble \/ Frame \/ Reconnect \/ CheckLiveness \/ Poke \/ Deadline
    BY <2>2 DEF Hello, Trouble, Frame, Reconnect, CheckLiveness, Poke, Deadline
  <2> QED BY <2>1, <2>2
<1>4. ~ws.stopped => /\ mem.session # 0 /\ mem.token = mem.session /\ mem.session \in 1..last
                     /\ task.k \notin {"restore", "params", "login", "register", "clear", "session", "keys", "load"}
  <2>1. ~ws.stopped => mem.session # 0 /\ task.k # "load"
    BY DEF InStep, SocketRuns
  <2>2. mem.session # 0 => mem.token = mem.session /\ mem.session \in 1..last
    BY DEF InStep, ChecksAreOfLogins, Typed, MemoryTyped, Memories, LoginsTyped, Numbers
  <2>3. mem.session # 0 => task.k \notin {"restore", "params", "login", "register", "clear", "session", "keys"}
    BY DEF InStep, LoginProceeds, Typed, NeverMixed
  <2> QED BY <2>1, <2>2, <2>3
<1>5. LoginProceeds'
  BY <1>1, <1>3, <1>4 DEF InStep, LoginProceeds
<1>6. ChecksAreOfLogins'
  BY <1>1, <1>3, <1>4 DEF InStep, ChecksAreOfLogins
<1> QED BY <1>1, <1>2, <1>5, <1>6 DEF InStep, DiskIsOneLogin, LogoutProceeds, SocketRuns

\* What the parts of the invariant say of a login that is about to be established.
LEMMA LoginInStep ==
  ASSUME Typed, InStep, Submit \/ ParamsAnswered \/ LogIn \/ Register \/ AuthFails
  PROVE  InStep'
<1>1. UNCHANGED <<disk, mem, leaving, checks, ws>>
  BY DEF Submit, ParamsAnswered, LogIn, Register, AuthFails, Accepted, Asking
<1>2. last \in Nat /\ last' \in Nat /\ last <= last'
  BY ClientAssumption DEF Typed, LoginsTyped, Numbers, Submit, ParamsAnswered, LogIn, Register, AuthFails,
     Accepted, Asking
<1>3. mem.session = 0 /\ task.k \notin {"load", "restore"}
  BY DEF Typed, NeverMixed, LoginsCounted, Submit, LoginScreen, AuthBusy, ParamsAnswered, LogIn, Register,
     AuthFails
<1>4. /\ task' \in Tasks
      /\ task'.k \in {"none", "params", "login", "register", "clear"}
      /\ task'.k = "clear" => task'.n = last + 1 /\ last' = last + 1
  <2>1. \/ \E k \in {"params", "register", "login"} : task' = [k |-> k, n |-> 0]
        \/ task' = [k |-> "none", n |-> 0]
        \/ task' = [k |-> "clear", n |-> last + 1] /\ last' = last + 1
    BY DEF Submit, ParamsAnswered, LogIn, Register, AuthFails, Accepted, Step, NoTask
  <2>2. TaskTyped'
    BY SubmitTyped DEF Typed
  <2> QED BY <2>1, <2>2 DEF TaskTyped
<1>5. last + 1 \notin checks
  BY <1>2 DEF InStep, ChecksAreOfLogins
<1>6. leaving # "request"
  BY <1>3 DEF InStep, LogoutProceeds
<1>7. LoginProceeds'
  BY <1>1, <1>2, <1>4, <1>5 DEF LoginProceeds
<1>8. ChecksAreOfLogins'
  <2>1. mem.session \in Nat /\ disk.session \in Nat /\ disk.keys \in Nat
    BY DEF Typed, MemoryTyped, Memories, DiskTyped, Disks, Numbers
  <2> QED BY <1>1, <1>2, <2>1 DEF InStep, ChecksAreOfLogins
<1>9. DiskIsOneLogin' /\ LogoutProceeds' /\ SocketRuns'
  BY <1>1, <1>3, <1>4, <1>6 DEF InStep, DiskIsOneLogin, LogoutProceeds, SocketRuns
<1> QED BY <1>7, <1>8, <1>9 DEF InStep

\* A session that is restored, and a login from its first write to its last.
LEMMA EstablishInStep ==
  ASSUME Typed, InStep, Restore \/ EstablishClear \/ EstablishSession \/ EstablishKeys
  PROVE  InStep'
<1>1. UNCHANGED <<last, leaving, checks, ws>>
  BY DEF Restore, EstablishClear, EstablishSession, EstablishKeys, Rest
<1>2. /\ last \in Nat /\ disk \in Disks /\ mem \in Memories
      /\ disk.session \in Nat /\ disk.keys \in Nat /\ mem.session \in Nat
  BY DEF Typed, LoginsTyped, DiskTyped, Disks, MemoryTyped, Memories, Numbers
<1>3. mem.session = 0 /\ ws.stopped /\ leaving # "request"
  BY DEF InStep, LoginProceeds, SocketRuns, LogoutProceeds, Typed, NeverMixed, Restore, EstablishClear,
     EstablishSession, EstablishKeys
<1>4. CASE Restore
  <2>1. disk' = disk /\ leaving = "no" /\ checks = {}
    BY <1>4 DEF Restore, InStep, LoginProceeds
  <2>2. CASE disk.session # 0 /\ disk.keys # 0
    <3>1. /\ mem' = [mem EXCEPT !.session = disk.session, !.token = disk.session, !.keys = disk.keys]
          /\ task' = [k |-> "load", n |-> disk.session]
      BY <2>2, <1>4 DEF Restore, Step
    <3>2. mem'.session = disk.session /\ disk.keys = disk.session
      BY <2>2, <3>1, <1>2 DEF Memories, Typed, NeverMixed
    <3> QED BY <2>1, <2>2, <3>1, <3>2, <1>1, <1>2, <1>3 DEF InStep, DiskIsOneLogin, LoginProceeds,
              LogoutProceeds, SocketRuns, ChecksAreOfLogins
  <2>3. CASE ~(disk.session # 0 /\ disk.keys # 0)
    <3>1. mem' = mem /\ task' = [k |-> "none", n |-> 0]
      BY <2>3, <1>4 DEF Restore, NoTask
    <3> QED BY <2>1, <2>3, <3>1, <1>1, <1>3 DEF InStep, DiskIsOneLogin, LoginProceeds, LogoutProceeds,
              SocketRuns, ChecksAreOfLogins
  <2> QED BY <2>2, <2>3
<1>5. CASE EstablishClear
  <2>1. /\ mem' = mem /\ disk' = [session |-> 0, keys |-> 0, data |-> {}]
        /\ task.k = "clear" /\ task' = [k |-> "session", n |-> task.n] /\ leaving # "clear"
    BY <1>5 DEF EstablishClear, Empty, Step
  <2>2. leaving = "no"
    BY <2>1, <1>3 DEF Typed, TaskTyped
  <2> QED BY <2>1, <2>2, <1>1, <1>2, <1>3 DEF InStep, DiskIsOneLogin, LoginProceeds, LogoutProceeds,
            SocketRuns, ChecksAreOfLogins
<1>6. CASE EstablishSession
  <2>1. /\ mem' = mem /\ disk' = [disk EXCEPT !.session = task.n]
        /\ task.k = "session" /\ task' = [k |-> "keys", n |-> task.n]
    BY <1>6 DEF EstablishSession, Step
  <2>2. disk'.session = task.n /\ disk'.keys = 0 /\ disk.keys = 0
    BY <2>1, <1>2 DEF Disks, Typed, NeverMixed
  <2> QED BY <2>1, <2>2, <1>1, <1>3 DEF InStep, DiskIsOneLogin, LoginProceeds, LogoutProceeds, SocketRuns,
            ChecksAreOfLogins
<1>7. CASE EstablishKeys
  <2>1. /\ disk' = [disk EXCEPT !.keys = task.n]
        /\ mem' = [mem EXCEPT !.session = task.n, !.token = task.n, !.keys = task.n]
        /\ task.k = "keys" /\ task' = [k |-> "load", n |-> task.n]
    BY <1>7 DEF EstablishKeys, Step
  <2>2. /\ disk'.session = disk.session /\ disk'.keys = task.n /\ mem'.session = task.n
        /\ disk.session = task.n /\ task.n \in 1..last
    BY <2>1, <1>2 DEF Disks, Memories, InStep, LoginProceeds
  <2>3. leaving = "no" /\ task.n \notin checks
    BY <2>1 DEF InStep, LoginProceeds
  <2> QED BY <2>1, <2>2, <2>3, <1>1, <1>2, <1>3 DEF InStep, DiskIsOneLogin, LoginProceeds, LogoutProceeds,
            SocketRuns, ChecksAreOfLogins
<1> QED BY <1>4, <1>5, <1>6, <1>7

\* The socket starts when the data of the session has been loaded.
LEMMA LoadInStep ==
  ASSUME Typed, InStep, Load
  PROVE  InStep'
<1>1. UNCHANGED <<last, disk, leaving>>
  BY DEF Load, Rest
<1>2. /\ mem' = [mem EXCEPT !.data = disk.data] /\ checks' = checks \cup {mem.token}
      /\ ws' = (IF mem.session # 0 THEN Connect(Shut(ws), mem.session) ELSE ws)
      /\ task.k = "load" /\ task' = [k |-> "none", n |-> 0]
  BY DEF Load, StartSync, RefreshMe, NoTask
<1>3. /\ mem.session \in 1..last /\ mem.token = mem.session /\ mem.session # 0 /\ leaving = "no"
  BY <1>2 DEF InStep, LoginProceeds, Typed, MemoryTyped, LoginsTyped, Numbers
<1>4. mem'.session = mem.session /\ mem'.token = mem.token
  BY <1>2 DEF Typed, MemoryTyped, Memories
<1>5. ws'.stopped = FALSE /\ ws'.token = mem.session
  BY <1>2, <1>3 DEF Connect, Shut, Opened, Typed, SocketTyped, Sockets
<1> QED BY <1>1, <1>2, <1>3, <1>4, <1>5 DEF InStep, DiskIsOneLogin, LoginProceeds, LogoutProceeds, SocketRuns,
          ChecksAreOfLogins

\* A logout stops the socket before anything else.
LEMMA LogoutInStep ==
  ASSUME Typed, InStep, LogOut \/ LogoutAnswered \/ LogoutClear
  PROVE  InStep'
<1>1. UNCHANGED <<last, task, checks>>
  BY DEF LogOut, LogoutAnswered, LogoutClear, Rest
<1>2. last \in Nat
  BY DEF Typed, LoginsTyped, Numbers
<1>3. CASE LogOut
  <2>1. /\ UNCHANGED <<disk, mem>> /\ leaving' = "request" /\ ws'.stopped
        /\ mem.session # 0 /\ task.k = "none"
    BY <1>3 DEF LogOut, BeginLogout, Shut, AtRest, NoTask, Typed, SocketTyped, Sockets
  <2> QED BY <2>1, <1>1 DEF InStep, DiskIsOneLogin, LoginProceeds, LogoutProceeds, SocketRuns, ChecksAreOfLogins
<1>4. CASE LogoutAnswered
  <2>1. /\ UNCHANGED <<disk, ws>> /\ leaving = "request" /\ leaving' = "clear" /\ mem'.session = 0
    BY <1>4 DEF LogoutAnswered, Fresh
  <2>2. task.k = "none" /\ ws.stopped
    BY <2>1 DEF InStep, LogoutProceeds, SocketRuns
  <2> QED BY <2>1, <2>2, <1>1, <1>2 DEF InStep, DiskIsOneLogin, LoginProceeds, LogoutProceeds, SocketRuns,
            ChecksAreOfLogins
<1>5. CASE LogoutClear
  <2>1. /\ UNCHANGED <<mem, ws>> /\ leaving = "clear" /\ leaving' = "no"
        /\ disk'.session = 0 /\ disk'.keys = 0
    BY <1>5 DEF LogoutClear, Empty
  <2>2. task.k \notin {"restore", "session", "keys", "load"} /\ mem.session = 0
    BY <2>1 DEF InStep, LogoutProceeds, LoginProceeds
  <2> QED BY <2>1, <2>2, <1>1, <1>2 DEF InStep, DiskIsOneLogin, LoginProceeds, LogoutProceeds, SocketRuns,
            ChecksAreOfLogins
<1> QED BY <1>3, <1>4, <1>5

\* A refused check signs out the login it was sent for, unless it comes late.
LEMMA CheckInStep ==
  ASSUME Typed, InStep, Checked, ~late'
  PROVE  InStep'
<1>1. UNCHANGED <<last, mem, task>> /\ checks' \subseteq checks
  BY DEF Checked
<1>2. \/ disk' = disk /\ UNCHANGED <<leaving, ws>>
      \/ mem.session # 0 /\ disk' = [disk EXCEPT !.session = mem.session] /\ UNCHANGED <<leaving, ws>>
      \/ disk' = disk /\ mem.token \in checks /\ leaving = "no" /\ leaving' = "request" /\ ws' = Shut(ws)
  BY DEF Checked, BeginLogout
<1>3. CASE UNCHANGED <<disk, leaving, ws>>
  BY <1>1, <1>3 DEF InStep, DiskIsOneLogin, LoginProceeds, LogoutProceeds, SocketRuns, ChecksAreOfLogins
<1>4. CASE /\ mem.session # 0 /\ disk' = [disk EXCEPT !.session = mem.session] /\ UNCHANGED <<leaving, ws>>
  <2>1. disk.session = mem.session
    BY <1>4 DEF InStep, DiskIsOneLogin
  <2>2. disk'.session = disk.session /\ disk'.keys = disk.keys
    BY <1>4, <2>1 DEF Typed, DiskTyped, Disks
  <2> QED BY <1>1, <1>4, <2>2 DEF InStep, DiskIsOneLogin, LoginProceeds, LogoutProceeds, SocketRuns,
            ChecksAreOfLogins
<1>5. CASE /\ disk' = disk /\ mem.token \in checks /\ leaving = "no" /\ leaving' = "request" /\ ws' = Shut(ws)
  <2>1. mem.session # 0 /\ mem.session \in checks
    BY <1>5 DEF InStep, ChecksAreOfLogins, Typed, MemoryTyped, LoginsTyped, Numbers
  <2>2. task.k = "none"
    BY <2>1 DEF InStep, LoginProceeds, Typed, NeverMixed, TaskTyped, Tasks
  <2>3. ws'.stopped
    BY <1>5 DEF Shut, Typed, SocketTyped, Sockets
  <2> QED BY <1>1, <1>5, <2>1, <2>2, <2>3 DEF InStep, DiskIsOneLogin, LoginProceeds, LogoutProceeds, SocketRuns,
            ChecksAreOfLogins
<1> QED BY <1>2, <1>3, <1>4, <1>5

\* The synchronisation and a reload.
LEMMA SyncInStep ==
  ASSUME Typed, InStep, SyncPage \/ Reload
  PROVE  InStep'
<1>1. CASE SyncPage
  <2>1. UNCHANGED <<last, task, leaving, checks, ws>>
    BY <1>1 DEF SyncPage
  <2>2. disk'.session = disk.session /\ disk'.keys = disk.keys /\ mem'.session = mem.session
    BY <1>1 DEF SyncPage, Typed, DiskTyped, Disks, MemoryTyped, Memories
  <2> QED BY <2>1, <2>2 DEF InStep, DiskIsOneLogin, LoginProceeds, LogoutProceeds, SocketRuns, ChecksAreOfLogins
<1>2. CASE Reload
  <2>1. /\ last' = last /\ disk' = disk /\ task'.k = "restore" /\ leaving' = "no" /\ checks' = {}
        /\ mem'.session = 0 /\ ws'.stopped = TRUE
    BY <1>2 DEF Reload, Fresh, Closed
  <2>2. last \in Nat
    BY DEF Typed, LoginsTyped, Numbers
  <2>3. DiskIsOneLogin' /\ LoginProceeds' /\ LogoutProceeds'
    BY <2>1 DEF DiskIsOneLogin, LoginProceeds, LogoutProceeds
  <2>4. SocketRuns'
    BY <2>1 DEF SocketRuns
  <2>5. ChecksAreOfLogins'
    BY <2>1, <2>2 DEF InStep, ChecksAreOfLogins
  <2> QED BY <2>3, <2>4, <2>5 DEF InStep
<1> QED BY <1>1, <1>2

\* While no late answer intervenes, memory, disk, socket and task stay in step.
LEMMA InStepStep ==
  ASSUME Typed, Attended(ws), InStep, [Next]_vars, ~late'
  PROVE  InStep'
<1>1. CASE Type \/ Run \/ Listed \/ Reset \/ RunEnds
  BY <1>1, SearchWritesSearch DEF InStep, DiskIsOneLogin, LoginProceeds, LogoutProceeds, SocketRuns,
     ChecksAreOfLogins
<1>2. CASE ChangePassword \/ ChallengeAnswered \/ PasswordAnswered \/ Revoke \/ SyncFails \/ UNCHANGED vars
  <2>1. UNCHANGED <<last, disk, mem, task, leaving, checks, ws>>
    BY <1>2 DEF ChangePassword, ChallengeAnswered, PasswordAnswered, Changing, Revoke, SyncFails, vars, session
  <2> QED BY <2>1 DEF InStep, DiskIsOneLogin, LoginProceeds, LogoutProceeds, SocketRuns, ChecksAreOfLogins
<1>3. CASE CheckUnanswered
  <2>1. UNCHANGED <<last, disk, mem, task, leaving, ws>> /\ checks' \subseteq checks
    BY <1>3 DEF CheckUnanswered, session
  <2> QED BY <2>1 DEF InStep, DiskIsOneLogin, LoginProceeds, LogoutProceeds, SocketRuns, ChecksAreOfLogins
<1> QED BY <1>1, <1>2, <1>3, NetInStep, LoginInStep, EstablishInStep, LoadInStep, LogoutInStep, CheckInStep,
           SyncInStep DEF Next

(***************************************************************************)
(* Data is next to its own session.                                        *)
(***************************************************************************)
\* While no page of an earlier login straggles in, the data stays with its login.
LEMMA DataStep ==
  ASSUME Typed, InStep, DataWithItsLogin, [Next]_vars, ~straggled'
  PROVE  DataWithItsLogin'
<1>1. disk \in Disks /\ mem \in Memories
  BY DEF Typed, DiskTyped, MemoryTyped
<1>2. CASE Restore
  <2>1. disk' = disk /\ mem'.data = mem.data /\ mem.session = 0
    BY <1>1, <1>2 DEF Restore, InStep, LoginProceeds, Memories
  <2> QED BY <2>1 DEF DataWithItsLogin
<1>3. CASE EstablishClear \/ LogoutClear
  BY <1>3 DEF EstablishClear, LogoutClear, Empty, DataWithItsLogin
<1>4. CASE EstablishSession
  <2>1. mem' = mem /\ disk'.data = disk.data /\ disk.keys = 0
    BY <1>1, <1>4 DEF EstablishSession, Disks, Typed, NeverMixed
  <2> QED BY <2>1 DEF DataWithItsLogin
<1>5. CASE EstablishKeys
  <2>1. mem'.data = mem.data /\ disk'.data = disk.data /\ disk.keys = 0 /\ mem.session = 0
    BY <1>1, <1>5 DEF EstablishKeys, Disks, Memories, Typed, NeverMixed
  <2> QED BY <2>1 DEF DataWithItsLogin
<1>6. CASE Load
  <2>1. disk' = disk /\ mem'.data = disk.data /\ mem'.session = mem.session /\ task.k = "load"
    BY <1>1, <1>6 DEF Load, Memories
  <2>2. mem.session # 0 /\ disk.session = mem.session /\ disk.keys = mem.session
    BY <2>1 DEF InStep, LoginProceeds, DiskIsOneLogin, Typed, LoginsTyped, Numbers
  <2> QED BY <2>1, <2>2 DEF DataWithItsLogin
<1>7. CASE LogoutAnswered \/ Reload
  BY <1>7 DEF LogoutAnswered, Reload, Fresh, DataWithItsLogin
<1>8. CASE Checked
  <2>1. mem' = mem /\ (disk' = disk \/ (mem.session # 0 /\ disk' = [disk EXCEPT !.session = mem.session]))
    BY <1>8 DEF Checked
  <2>2. mem.session # 0 => disk.session = mem.session
    BY DEF InStep, DiskIsOneLogin
  <2>3. disk'.data = disk.data /\ disk'.session = disk.session /\ disk'.keys = disk.keys
    BY <1>1, <2>1, <2>2 DEF Disks
  <2> QED BY <2>1, <2>3 DEF DataWithItsLogin
<1>9. CASE SyncPage
  <2>1. /\ disk'.data = disk.data \cup {sync} /\ mem'.data = mem.data \cup {sync}
        /\ disk'.session = disk.session /\ disk'.keys = disk.keys /\ mem'.session = mem.session
    BY <1>1, <1>9 DEF SyncPage, Disks, Memories
  <2>2. sync # 0 /\ mem.session = sync
    BY <1>9 DEF SyncPage
  <2>3. disk.session = sync /\ disk.keys = sync
    BY <2>2 DEF InStep, DiskIsOneLogin
  <2> QED BY <2>1, <2>2, <2>3 DEF DataWithItsLogin
<1>10. CASE Hello \/ Refused \/ Trouble \/ Frame \/ Reconnect \/ CheckLiveness \/ Poke \/ Deadline
  <2>1. UNCHANGED <<disk, mem>>
    BY <1>10 DEF Hello, Refused, Trouble, Frame, Reconnect, CheckLiveness, Poke, Deadline, Net, session
  <2> QED BY <2>1 DEF DataWithItsLogin
<1>11. CASE \/ Submit \/ ParamsAnswered \/ LogIn \/ Register \/ AuthFails \/ LogOut \/ ChangePassword
            \/ ChallengeAnswered \/ PasswordAnswered \/ Revoke \/ CheckUnanswered \/ SyncFails \/ UNCHANGED vars
  <2>1. UNCHANGED <<disk, mem>>
    BY <1>11 DEF Submit, ParamsAnswered, LogIn, Register, AuthFails, Accepted, Asking, LogOut, ChangePassword,
       ChallengeAnswered, PasswordAnswered, Changing, Revoke, CheckUnanswered, SyncFails, vars, session
  <2> QED BY <2>1 DEF DataWithItsLogin
<1>12. CASE Type \/ Run \/ Listed \/ Reset \/ RunEnds
  BY <1>12, SearchWritesSearch DEF DataWithItsLogin
<1> QED BY <1>2, <1>3, <1>4, <1>5, <1>6, <1>7, <1>8, <1>9, <1>10, <1>11, <1>12 DEF Next

(***************************************************************************)
(* The theorems.                                                           *)
(***************************************************************************)
\* A late refusal and a straggler stay in the history.
LEMMA HistoryGrows ==
  ASSUME Typed, [Next]_vars
  PROVE  (late => late') /\ (straggled => straggled')
<1>1. CASE Checked
  <2>1. UNCHANGED straggled /\ (late' = late \/ \E n \in checks : late' = (late \/ n # mem.token))
    BY <1>1 DEF Checked
  <2>2. late \in BOOLEAN /\ straggled \in BOOLEAN
    BY DEF Typed, HistoryTyped
  <2>3. late => late'
    BY <2>1, <2>2
  <2> QED BY <2>1, <2>3
<1>6. CASE SyncPage
  BY <1>6 DEF SyncPage
<1>2. CASE Hello \/ Refused \/ Trouble \/ Frame \/ Reconnect \/ CheckLiveness \/ Poke \/ Deadline
  BY <1>2 DEF Hello, Refused, Trouble, Frame, Reconnect, CheckLiveness, Poke, Deadline, Net, history
<1>3. CASE \/ Restore \/ Submit \/ ParamsAnswered \/ LogIn \/ Register \/ AuthFails
           \/ EstablishClear \/ EstablishSession \/ EstablishKeys \/ Load
  BY <1>3 DEF Restore, Submit, ParamsAnswered, LogIn, Register, AuthFails, Accepted, Asking, EstablishClear,
     EstablishSession, EstablishKeys, Load, Rest, history
<1>4. CASE \/ LogOut \/ LogoutAnswered \/ LogoutClear \/ ChangePassword \/ ChallengeAnswered
           \/ PasswordAnswered \/ Revoke \/ CheckUnanswered \/ SyncFails \/ Reload \/ UNCHANGED vars
  BY <1>4 DEF LogOut, LogoutAnswered, LogoutClear, Rest, ChangePassword, ChallengeAnswered, PasswordAnswered,
     Changing, Revoke, CheckUnanswered, SyncFails, Reload, vars, history
<1>5. CASE Type \/ Run \/ Listed \/ Reset \/ RunEnds
  BY <1>5, SearchWritesSearch
<1> QED BY <1>1, <1>2, <1>3, <1>4, <1>5, <1>6 DEF Next

\* The two halves of an attended socket, as the module Client names them.
LEMMA SocketIsAttended == Attended(ws) <=> SocketWatched /\ DeadlineSparesOthers
BY DEF Attended, SocketWatched, DeadlineSparesOthers

\* The invariant holds when the application is first opened.
LEMMA InitIInv == Init => IInv
<1> SUFFICES ASSUME Init PROVE IInv
  OBVIOUS
<1>1. 0 \in Numbers
  BY ClientAssumption DEF Numbers
<1>2. TypeOK
  BY <1>1 DEF Init, TypeOK, Empty, Fresh, NoChange, Closed, Blank
<1>3. LoginsCounted /\ NeverMixed /\ SocketWatched /\ DeadlineSparesOthers /\ LatestIsTyped
  BY DEF Init, LoginsCounted, NeverMixed, SocketWatched, DeadlineSparesOthers, LatestIsTyped, Empty, Fresh,
     Closed, Blank
<1>4. InStep /\ DataWithItsLogin
  <2>1. DiskIsOneLogin /\ LoginProceeds /\ LogoutProceeds /\ ChecksAreOfLogins /\ DataWithItsLogin
    BY DEF Init, DiskIsOneLogin, LoginProceeds, LogoutProceeds, ChecksAreOfLogins, DataWithItsLogin, Empty, Fresh
  <2>2. SocketRuns
    <3>1. ws.stopped = TRUE /\ mem.session = 0
      BY DEF Init, Closed, Fresh
    <3> QED BY <3>1 DEF SocketRuns
  <2> QED BY <2>1, <2>2 DEF InStep
<1> QED BY <1>2, <1>3, <1>4 DEF IInv

\* And every step keeps it.
LEMMA IInvStep == IInv /\ [Next]_vars => IInv'
<1> SUFFICES ASSUME IInv, [Next]_vars PROVE IInv'
  OBVIOUS
<1>1. Typed /\ Attended(ws)
  BY TypedIsTypeOK, SocketIsAttended DEF IInv
<1>2. Typed'
  BY <1>1, TypedStep
<1>3. (TypeOK /\ LoginsCounted /\ NeverMixed)'
  BY <1>2 DEF Typed, TypeOK, LoginsTyped, DiskTyped, MemoryTyped, TaskTyped, ChangeTyped, SocketTyped,
              SearchTyped, HistoryTyped, Disks, Memories, Tasks, Changes, Sockets, Runs, Searches
<1>4. Attended(ws')
  BY <1>1, AttendedStep
<1>5. (SocketWatched /\ DeadlineSparesOthers)'
  BY <1>4 DEF Attended, SocketWatched, DeadlineSparesOthers
<1>6. LatestIsTyped'
  BY <1>1, LatestIsTypedStep DEF IInv
<1>7. ~late' => InStep'
  BY <1>1, HistoryGrows, InStepStep DEF IInv
<1>8. ~late' /\ ~straggled' => DataWithItsLogin'
  BY <1>1, HistoryGrows, DataStep DEF IInv
<1> QED BY <1>3, <1>5, <1>6, <1>7, <1>8 DEF IInv

\* The inductive invariant holds in every state.
THEOREM Invariant == Spec => []IInv
BY InitIInv, IInvStep, PTL DEF Spec

\* Every variable has its type, what is in memory is of one login, the socket of a
\* running connection is never left alone and the deadline of a poke replaces no
\* socket but the one it pinged (ws.ts), whatever is lost, refused or reloaded.
THEOREM ClientConsistent == Spec => []Consistent
<1>1. IInv => Consistent
  BY DEF IInv, Consistent, Watched, SocketWatched, TypeOK
<1> QED BY <1>1, Invariant, PTL

\* The socket runs exactly while somebody is signed in and with their token,
\* through logins, logouts and reloads in any order (establish, logout, startSync).
THEOREM ClientSocketIsSessions == Spec => []SocketIsSessions
<1>1. IInv => SocketIsSessions
  BY DEF IInv, SocketIsSessions, AtRest, NoTask, InStep, SocketRuns
<1> QED BY <1>1, Invariant, PTL

\* A reload restores what is in memory, wherever earlier ones broke off a login or
\* a logout (establish, logout, restoreSession).
THEOREM ClientSurvivesReload == Spec => []SurvivesReload
<1>1. IInv => SurvivesReload
  BY DEF IInv, SurvivesReload, AtRest, NoTask, InStep, DiskIsOneLogin
<1> QED BY <1>1, Invariant, PTL

\* Data of one login never meets another login, in memory or in the database
\* (clearAll, resetState, loadLocalState, fullSync).
THEOREM ClientDataIsOwn == Spec => []DataIsOwn
<1>1. IInv => DataIsOwn
  BY DEF IInv, DataIsOwn, AtRest, NoTask, InStep, DiskIsOneLogin, DataWithItsLogin
<1> QED BY <1>1, Invariant, PTL

\* A search that is over shows the answer to what is typed, in whatever order the
\* searches end (run, reset).
THEOREM ClientSearchIsCurrent == Spec => []SearchIsCurrent
<1>1. IInv => SearchIsCurrent
  BY DEF IInv, SearchIsCurrent, LatestIsTyped
<1> QED BY <1>1, Invariant, PTL
=============================================================================
