--------------------------- MODULE ConvLogProofs ---------------------------
(***************************************************************************)
(* Theorems about ConvLog, for every set of accounts, client ids and       *)
(* requests and every value of the bounds.                                 *)
(***************************************************************************)
EXTENDS ConvLog, FiniteSetTheorems, TLAPS

(***************************************************************************)
(* Type correctness.                                                       *)
(***************************************************************************)
\* A request that is not there is a request.
LEMMA IdleType == Idle \in Request /\ Idle.pc = "idle"
  BY DEF Idle, Request, Steps

\* A request set to r: every other request is what it was.
LEMMA BecomeType ==
  ASSUME NEW h \in Requests, NEW r \in Request,
         req \in [Requests -> Request], Become(h, r)
  PROVE  /\ req' \in [Requests -> Request]
         /\ req'[h] = r
         /\ \A g \in Requests \ {h} : req'[g] = req[g]
  BY DEF Become

\* A request that ends is idle, the others are what they were.
LEMMA FinishType ==
  ASSUME NEW h \in Requests, req \in [Requests -> Request], Finish(h)
  PROVE  /\ req' \in [Requests -> Request]
         /\ req'[h].pc = "idle"
         /\ \A g \in Requests \ {h} : req'[g] = req[g]
  BY IdleType DEF Finish, Become

\* A request moved on to its next step keeps its sender and its client id.
LEMMA AtType ==
  ASSUME NEW q \in Request, NEW p \in Steps, NEW s \in Nat, NEW T \in SUBSET Accounts
  PROVE  /\ At(q, p, s, T) \in Request
         /\ At(q, p, s, T).pc = p /\ At(q, p, s, T).seq = s
         /\ At(q, p, s, T).by = q.by /\ At(q, p, s, T).cid = q.cid
         /\ At(q, p, s, T).targets = T
  BY DEF Request, At

\* Taking a member out keeps the types of the tables about members.
LEMMA DropMemberType ==
  ASSUME NEW b \in Accounts, TypeOK, DropMember(b)
  PROVE  /\ members' \subseteq Accounts /\ owners' \subseteq Accounts
         /\ joined' \in [Accounts -> Nat] /\ readSeq' \in [Accounts -> Nat]
  BY DEF TypeOK, DropMember

\* Requests stay filled when one of them becomes a filled r.
LEMMA FilledBecome ==
  ASSUME NEW h \in Requests, NEW r \in Request, Typed, Become(h, r),
         r.pc = "send" => r.by \in Accounts /\ r.cid \in ClientIds,
         r.pc \in {"fanout", "delete", "deleted"} => r.by \in Accounts,
         r.pc \in {"delete", "deleted"} => r.cid = None,
         r.pc \in {"add", "remove"} => r.acct \in Accounts
  PROVE  req' \in [Requests -> Request] /\ RequestsFilled'
<1>1. req \in [Requests -> Request]
  BY DEF Typed, TypeOK
<1>2. \A g \in Requests : req'[g] = IF g = h THEN r ELSE req[g]
  BY <1>1, BecomeType
<1>3. req' \in [Requests -> Request]
  BY <1>1, BecomeType
<1>4. ASSUME NEW g \in Requests
      PROVE  /\ req'[g].pc = "send" => req'[g].by \in Accounts /\ req'[g].cid \in ClientIds
             /\ req'[g].pc \in {"fanout", "delete", "deleted"} => req'[g].by \in Accounts
             /\ req'[g].pc \in {"delete", "deleted"} => req'[g].cid = None
             /\ req'[g].pc \in {"add", "remove"} => req'[g].acct \in Accounts
  <2>1. CASE g = h
    BY <2>1, <1>2
  <2>2. CASE g # h
    <3>1. req'[g] = req[g]
      BY <2>2, <1>2
    <3> QED BY <3>1, <1>1 DEF Typed, RequestsFilled
  <2> QED BY <2>1, <2>2
<1> QED BY <1>3, <1>4 DEF RequestsFilled

\* Requests stay filled when one of them ends.
LEMMA FilledFinish ==
  ASSUME NEW h \in Requests, Typed, Finish(h)
  PROVE  req' \in [Requests -> Request] /\ RequestsFilled'
<1>1. Idle \in Request /\ Become(h, Idle)
  BY IdleType DEF Finish
<1>2. QED BY <1>1, IdleType, FilledBecome

\* And when none of them moves.
LEMMA FilledSame ==
  ASSUME Typed, UNCHANGED req
  PROVE  RequestsFilled'
  BY DEF Typed, RequestsFilled

\* Every variable keeps its type and every request carries what its next step
\* needs: whatever the handlers interleave to, the tables hold what their
\* columns say.
LEMMA TypedStep == Typed /\ [Next]_vars => Typed'
<1> SUFFICES ASSUME Typed, [Next]_vars PROVE Typed'
  OBVIOUS
<1> USE DEF convVars, memberVars
<1>0. TypeOK /\ RequestsFilled /\ lastSeq \in Nat
  BY DEF Typed, TypeOK
<1>1. ASSUME NEW h \in Requests, NEW a \in Accounts, NEW c \in ClientIds, SendStart(h, a, c)
      PROVE  Typed'
  <2> DEFINE r == [Idle EXCEPT !.pc = "send", !.by = a, !.cid = c, !.ts = clock]
  <2>1. r \in Request /\ r.pc = "send" /\ r.by = a /\ r.cid = c
    BY <1>0 DEF Idle, Request, Steps, TypeOK
  <2>2. Become(h, r) /\ lastSeq' = lastSeq
    BY <1>1 DEF SendStart
  <2> HIDE DEF r
  <2>3. req' \in [Requests -> Request] /\ RequestsFilled'
    BY <1>0, <2>1, <2>2, FilledBecome
  <2> QED BY <1>1, <1>0, <2>3 DEF SendStart, Typed, TypeOK
<1>2. ASSUME NEW h \in Requests, SendStore(h) PROVE Typed'
  <2> DEFINE r == At(req[h], "fanout", lastSeq + 1, members)
  <2>1. req[h] \in Request /\ req[h].pc = "send" /\ req[h].by \in Accounts
        /\ req[h].cid \in ClientIds
    BY <1>0, <1>2 DEF SendStore, TypeOK, RequestsFilled
  <2>2. r \in Request /\ r.pc = "fanout" /\ r.by \in Accounts
    <3>1. lastSeq + 1 \in Nat /\ members \in SUBSET Accounts /\ "fanout" \in Steps
      BY <1>0 DEF TypeOK, Steps
    <3> QED BY <2>1, <3>1, AtType
  <2>3. Become(h, r) /\ lastSeq' = lastSeq + 1
    BY <1>2 DEF SendStore
  <2>4. MessageRow(lastSeq + 1, req[h].by, req[h].cid, req[h].ts) \in Row
    BY <1>0, <2>1 DEF MessageRow, Row, Request
  <2> HIDE DEF r
  <2>5. req' \in [Requests -> Request] /\ RequestsFilled'
    BY <1>0, <2>2, <2>3, FilledBecome
  <2> QED BY <1>2, <1>0, <2>4, <2>5 DEF SendStore, Typed, TypeOK
<1>3. ASSUME NEW h \in Requests, SendDuplicate(h) PROVE Typed'
  <2>1. req' \in [Requests -> Request] /\ RequestsFilled'
    BY <1>0, <1>3, FilledFinish DEF SendDuplicate
  <2>2. req[h].by \in Accounts /\ req[h].cid \in ClientIds
    BY <1>0, <1>3 DEF SendDuplicate, RequestsFilled
  <2>3. PICK r \in Stored(req[h].by, req[h].cid) :
          acks' = acks \cup {[sender |-> req[h].by, cid |-> req[h].cid, seq |-> r.seq]}
    BY <1>3 DEF SendDuplicate
  <2>4. r \in Row /\ r.seq \in Nat
    BY <1>0 DEF Stored, TypeOK, Row
  <2>5. acks' \subseteq Ack
    BY <1>0, <2>2, <2>3, <2>4 DEF TypeOK, Ack
  <2> QED BY <1>3, <1>0, <2>1, <2>5 DEF SendDuplicate, Typed, TypeOK
<1>4. ASSUME NEW h \in Requests,
             \/ SendRefuse(h) \/ DeleteMissing(h) \/ AddConflict(h)
             \/ RemoveMissing(h) \/ Abandon(h)
      PROVE  Typed'
  <2>1. Finish(h) /\ UNCHANGED <<convVars, memberVars, clock, cutoff, acks>>
    BY <1>4 DEF SendRefuse, DeleteMissing, AddConflict, RemoveMissing, Abandon
  <2>2. req' \in [Requests -> Request] /\ RequestsFilled'
    BY <1>0, <2>1, FilledFinish
  <2> QED BY <1>0, <2>1, <2>2 DEF Typed, TypeOK
<1>5. ASSUME NEW h \in Requests, Fanout(h) PROVE Typed'
  <2>1. req' \in [Requests -> Request] /\ RequestsFilled'
    BY <1>0, <1>5, FilledFinish DEF Fanout
  <2>2. req[h] \in Request /\ req[h].by \in Accounts
    BY <1>0, <1>5 DEF Fanout, TypeOK, RequestsFilled
  <2>3. acks' \subseteq Ack
    BY <1>0, <1>5, <2>2 DEF Fanout, TypeOK, Ack, Request
  <2> QED BY <1>5, <1>0, <2>1, <2>3 DEF Fanout, Typed, TypeOK
<1>6. ASSUME NEW h \in Requests, NEW a \in Accounts, NEW s \in 1..MaxSeq, DeleteStart(h, a, s)
      PROVE  Typed'
  <2> DEFINE r == [Idle EXCEPT !.pc = "delete", !.by = a, !.seq = s, !.ts = clock]
  <2>1. s \in Nat
    BY ConvLogAssumption
  <2>2. r \in Request /\ r.pc = "delete" /\ r.by = a /\ r.seq = s /\ r.cid = None
    BY <1>0, <2>1 DEF Idle, Request, Steps, TypeOK
  <2>3. Become(h, r) /\ lastSeq' = lastSeq
    BY <1>6 DEF DeleteStart
  <2> HIDE DEF r
  <2>5. req' \in [Requests -> Request] /\ RequestsFilled'
    BY <1>0, <2>2, <2>3, FilledBecome
  <2> QED BY <1>6, <1>0, <2>5 DEF DeleteStart, Typed, TypeOK
<1>7. ASSUME NEW h \in Requests, DeleteStore(h) PROVE Typed'
  <2> DEFINE r == At(req[h], "deleted", lastSeq + 1, {})
  <2>1. /\ req[h] \in Request /\ req[h].pc = "delete" /\ req[h].by \in Accounts
        /\ req[h].cid = None /\ req[h].ts \in Nat
    BY <1>0, <1>7 DEF DeleteStore, TypeOK, RequestsFilled, Request
  <2>2. r \in Request /\ r.pc = "deleted" /\ r.by \in Accounts /\ r.cid = None
    <3>1. lastSeq + 1 \in Nat /\ "deleted" \in Steps
      BY <1>0 DEF Steps
    <3> QED BY <2>1, <3>1, AtType
  <2>3. Become(h, r)
    BY <1>7 DEF DeleteStore
  <2>4. PICK m \in MessagesAt(req[h].seq), t \in req[h].ts..clock :
          rows' = {x \in rows : x.seq # req[h].seq}
                    \cup {RecordRow(lastSeq + 1, req[h].by, t, m)}
    BY <1>7 DEF DeleteStore
  <2>5. m \in Row /\ t \in Nat
    BY <1>0, <2>1 DEF MessagesAt, TypeOK
  <2>6. RecordRow(lastSeq + 1, req[h].by, t, m) \in Row
    BY <1>0, <2>1, <2>5 DEF RecordRow, Row
  <2> HIDE DEF r
  <2>7. req' \in [Requests -> Request] /\ RequestsFilled'
    BY <1>0, <2>2, <2>3, FilledBecome
  <2> QED BY <1>7, <1>0, <2>4, <2>6, <2>7 DEF DeleteStore, Typed, TypeOK
<1>8. ASSUME NEW h \in Requests, DeleteList(h) PROVE Typed'
  <2> DEFINE r == At(req[h], "fanout", req[h].seq, members)
  <2>1. req[h] \in Request /\ req[h].pc = "deleted" /\ req[h].by \in Accounts
    BY <1>0, <1>8 DEF DeleteList, TypeOK, RequestsFilled
  <2>2. r \in Request /\ r.pc = "fanout" /\ r.by \in Accounts
    <3>1. req[h].seq \in Nat /\ members \in SUBSET Accounts /\ "fanout" \in Steps
      BY <1>0, <2>1 DEF TypeOK, Steps, Request
    <3> QED BY <2>1, <3>1, AtType
  <2>3. Become(h, r)
    BY <1>8 DEF DeleteList
  <2> HIDE DEF r
  <2>4. req' \in [Requests -> Request] /\ RequestsFilled'
    BY <1>0, <2>2, <2>3, FilledBecome
  <2> QED BY <1>8, <1>0, <2>4 DEF DeleteList, Typed, TypeOK
<1>9. ASSUME NEW h \in Requests, NEW a \in Accounts, NEW b \in Accounts,
             AddStart(h, a, b) \/ RemoveStart(h, a, b)
      PROVE  Typed'
  <2>1. PICK p \in {"add", "remove"} :
          /\ Become(h, [Idle EXCEPT !.pc = p, !.by = a, !.acct = b])
          /\ UNCHANGED <<convVars, memberVars, clock, cutoff, acks>>
    BY <1>9 DEF AddStart, RemoveStart
  <2> DEFINE r == [Idle EXCEPT !.pc = p, !.by = a, !.acct = b]
  <2>2. r \in Request /\ r.pc \in {"add", "remove"} /\ r.acct \in Accounts
    BY DEF Idle, Request, Steps
  <2> HIDE DEF r
  <2>3. req' \in [Requests -> Request] /\ RequestsFilled'
    BY <1>0, <2>1, <2>2, FilledBecome DEF r
  <2> QED BY <1>0, <2>1, <2>3 DEF Typed, TypeOK
<1>10. ASSUME NEW h \in Requests, AddStore(h) PROVE Typed'
  <2>1. req' \in [Requests -> Request] /\ RequestsFilled'
    BY <1>0, <1>10, FilledFinish DEF AddStore
  <2>2. req[h].acct \in Accounts
    BY <1>0, <1>10 DEF AddStore, RequestsFilled
  <2> QED BY <1>10, <1>0, <2>1, <2>2 DEF AddStore, Typed, TypeOK
<1>11. ASSUME NEW h \in Requests, RemoveStore(h) PROVE Typed'
  <2>1. req' \in [Requests -> Request] /\ RequestsFilled'
    BY <1>0, <1>11, FilledFinish DEF RemoveStore
  <2>2. req[h].acct \in Accounts
    BY <1>0, <1>11 DEF RemoveStore, RequestsFilled
  <2> QED BY <1>11, <1>0, <2>1, <2>2, DropMemberType DEF RemoveStore, Typed, TypeOK
<1>12. ASSUME NEW b \in Accounts, DeleteAccount(b) PROVE Typed'
  <2>1. RequestsFilled'
    BY <1>12, FilledSame DEF DeleteAccount
  <2> QED BY <1>12, <1>0, <2>1, DropMemberType DEF DeleteAccount, Typed, TypeOK
<1>13. ASSUME NEW a \in Accounts, NEW s \in 1..MaxRead, MarkRead(a, s) PROVE Typed'
  <2>1. RequestsFilled'
    BY <1>13, FilledSame DEF MarkRead
  <2>2. s \in Nat
    BY ConvLogAssumption
  <2>3. readSeq' \in [Accounts -> Nat]
    BY <1>13, <1>0, <2>2 DEF MarkRead, TypeOK
  <2> QED BY <1>13, <1>0, <2>1, <2>3 DEF MarkRead, Typed, TypeOK
<1>14. ASSUME NEW h \in Requests, NEW a \in Accounts, NEW t \in Timers, RetentionStart(h, a, t)
       PROVE  Typed'
  <2> DEFINE r == [Idle EXCEPT !.pc = "retain", !.by = a, !.ts = t]
  <2>1. r \in Request /\ r.pc = "retain"
    BY ConvLogAssumption DEF Idle, Request, Steps
  <2>2. Become(h, r)
    BY <1>14 DEF RetentionStart
  <2> HIDE DEF r
  <2>3. req' \in [Requests -> Request] /\ RequestsFilled'
    BY <1>0, <2>1, <2>2, FilledBecome
  <2> QED BY <1>14, <1>0, <2>3 DEF RetentionStart, Typed, TypeOK
<1>15. ASSUME NEW h \in Requests, RetentionStore(h) PROVE Typed'
  <2>1. req' \in [Requests -> Request] /\ RequestsFilled'
    BY <1>0, <1>15, FilledFinish DEF RetentionStore
  <2>2. req[h].ts \in Nat
    BY <1>0 DEF TypeOK, Request
  <2> QED BY <1>15, <1>0, <2>1, <2>2 DEF RetentionStore, Typed, TypeOK
<1>16. CASE JanitorStart
  <2>1. RequestsFilled'
    BY <1>16, FilledSame DEF JanitorStart
  <2>2. Effective(retention) \in Nat
    BY <1>0, ConvLogAssumption DEF Effective, TypeOK
  <2> QED BY <1>16, <1>0, <2>1, <2>2 DEF JanitorStart, Typed, TypeOK
<1>17. CASE JanitorPurge \/ Tick
  <2>1. RequestsFilled'
    BY <1>17, FilledSame DEF JanitorPurge, Tick
  <2> QED BY <1>17, <1>0, <2>1 DEF JanitorPurge, Tick, Typed, TypeOK
<1>18. CASE Restart
  <2>1. req' \in [Requests -> Request]
    BY <1>18, IdleType DEF Restart
  <2>2. \A h \in Requests : req'[h].pc = "idle"
    BY <1>18, IdleType DEF Restart
  <2>3. RequestsFilled'
    BY <2>2 DEF RequestsFilled
  <2> QED BY <1>18, <1>0, <2>1, <2>3 DEF Restart, Typed, TypeOK
<1>19. CASE UNCHANGED vars
  <2>1. RequestsFilled'
    BY <1>19, FilledSame DEF vars
  <2> QED BY <1>19, <1>0, <2>1 DEF vars, Typed, TypeOK
<1> QED
  BY <1>1, <1>2, <1>3, <1>4, <1>5, <1>6, <1>7, <1>8, <1>9, <1>10, <1>11, <1>12,
     <1>13, <1>14, <1>15, <1>16, <1>17, <1>18, <1>19 DEF Next, RequestStep

\* Whatever the handlers interleave to, the tables hold what their columns say.
THEOREM TypeCorrect == Spec => []TypeOK
<1>1. Init => Typed
  BY ConvLogAssumption, IdleType DEF Init, Typed, TypeOK, RequestsFilled, Row, Ack
<1>2. Typed => TypeOK
  BY DEF Typed
<1>3. QED BY <1>1, <1>2, TypedStep, PTL DEF Spec

(***************************************************************************)
(* What a step can do to the log, to a request, to the members and to the  *)
(* claims.                                                                 *)
(***************************************************************************)
\* Rows change with a send, a deletion or the purge.
LEMMA LogEffect ==
  ASSUME [Next]_vars
  PROVE  \/ UNCHANGED <<rows, lastSeq>>
         \/ \E h \in Requests : SendStore(h) \/ DeleteStore(h)
         \/ JanitorPurge /\ lastSeq' = lastSeq
  BY DEF Next, RequestStep, vars, convVars, memberVars, SendStart, SendDuplicate,
         SendRefuse, Fanout, DeleteStart, DeleteMissing, DeleteList, AddStart,
         AddStore, AddConflict, RemoveStart, RemoveStore, RemoveMissing,
         RetentionStart, RetentionStore, Abandon, DeleteAccount, MarkRead,
         JanitorStart, JanitorPurge, Tick, Restart

\* A request that is about to touch or announce a row got there by one of
\* four steps of its own.
LEMMA RequestEffect ==
  ASSUME Typed, [Next]_vars, NEW g \in Requests
  PROVE  \/ req'[g] = req[g]
         \/ req'[g].pc \notin {"fanout", "delete", "deleted"}
         \/ SendStore(g) \/ DeleteStore(g) \/ DeleteList(g)
         \/ \E a \in Accounts, s \in 1..MaxSeq : DeleteStart(g, a, s)
<1>1. req \in [Requests -> Request]
  BY DEF Typed, TypeOK
<1>2. ASSUME NEW h \in Requests, NEW r \in Request, Become(h, r),
             r.pc \notin {"fanout", "delete", "deleted"}
      PROVE  req'[g] = req[g] \/ req'[g].pc \notin {"fanout", "delete", "deleted"}
  BY <1>1, <1>2, BecomeType
<1>3. ASSUME NEW h \in Requests, NEW r, Become(h, r), h # g
      PROVE  req'[g] = req[g]
  BY <1>1, <1>3 DEF Become
<1>4. ASSUME NEW h \in Requests, Finish(h)
      PROVE  req'[g] = req[g] \/ req'[g].pc \notin {"fanout", "delete", "deleted"}
  BY <1>1, <1>4, FinishType
<1>5. ASSUME NEW h \in Requests,
             \/ SendDuplicate(h) \/ SendRefuse(h) \/ Fanout(h) \/ DeleteMissing(h)
             \/ AddStore(h) \/ AddConflict(h) \/ RemoveStore(h) \/ RemoveMissing(h)
             \/ RetentionStore(h) \/ Abandon(h)
      PROVE  req'[g] = req[g] \/ req'[g].pc \notin {"fanout", "delete", "deleted"}
  BY <1>5, <1>4 DEF SendDuplicate, SendRefuse, Fanout, DeleteMissing, AddStore,
     AddConflict, RemoveStore, RemoveMissing, RetentionStore, Abandon
<1>6. ASSUME NEW h \in Requests, SendStore(h) \/ DeleteStore(h) \/ DeleteList(h), h # g
      PROVE  req'[g] = req[g]
  BY <1>6, <1>3 DEF SendStore, DeleteStore, DeleteList
<1>7. ASSUME NEW h \in Requests, NEW a \in Accounts, NEW s \in 1..MaxSeq,
             DeleteStart(h, a, s), h # g
      PROVE  req'[g] = req[g]
  BY <1>7, <1>3 DEF DeleteStart
<1>8. ASSUME NEW h \in Requests, NEW a \in Accounts, NEW b \in Accounts,
             \/ \E c \in ClientIds : SendStart(h, a, c)
             \/ AddStart(h, a, b) \/ RemoveStart(h, a, b)
             \/ \E t \in Timers : RetentionStart(h, a, t)
      PROVE  req'[g] = req[g] \/ req'[g].pc \notin {"fanout", "delete", "deleted"}
  <2>1. CASE \E c \in ClientIds : SendStart(h, a, c)
    <3>1. PICK c \in ClientIds : SendStart(h, a, c)
      BY <2>1
    <3> DEFINE r == [Idle EXCEPT !.pc = "send", !.by = a, !.cid = c, !.ts = clock]
    <3>2. r.pc = "send" /\ Become(h, r)
      BY <3>1 DEF SendStart, Idle
    <3> HIDE DEF r
    <3> QED BY <1>1, <3>2 DEF Become
  <2>2. CASE AddStart(h, a, b) \/ RemoveStart(h, a, b)
    <3>1. PICK p \in {"add", "remove"} :
            Become(h, [Idle EXCEPT !.pc = p, !.by = a, !.acct = b])
      BY <2>2 DEF AddStart, RemoveStart
    <3> DEFINE r == [Idle EXCEPT !.pc = p, !.by = a, !.acct = b]
    <3>2. r.pc = p /\ Become(h, r)
      BY <3>1 DEF Idle
    <3> HIDE DEF r
    <3> QED BY <1>1, <3>2 DEF Become
  <2>3. CASE \E t \in Timers : RetentionStart(h, a, t)
    <3>1. PICK t \in Timers : RetentionStart(h, a, t)
      BY <2>3
    <3> DEFINE r == [Idle EXCEPT !.pc = "retain", !.by = a, !.ts = t]
    <3>2. r.pc = "retain" /\ Become(h, r)
      BY <3>1 DEF RetentionStart, Idle
    <3> HIDE DEF r
    <3> QED BY <1>1, <3>2 DEF Become
  <2> QED BY <1>8, <2>1, <2>2, <2>3
<1>9. ASSUME \/ UNCHANGED vars
             \/ \E b \in Accounts : DeleteAccount(b)
             \/ \E a \in Accounts, s \in 1..MaxRead : MarkRead(a, s)
             \/ JanitorStart \/ JanitorPurge \/ Tick
      PROVE  req'[g] = req[g]
  BY <1>9 DEF vars, DeleteAccount, MarkRead, JanitorStart, JanitorPurge, Tick
<1>10. CASE Restart
  BY <1>10, IdleType DEF Restart
<1> QED BY <1>5, <1>6, <1>7, <1>8, <1>9, <1>10 DEF Next, RequestStep

\* Members and their read positions change in these steps only.
LEMMA MemberEffect ==
  ASSUME [Next]_vars
  PROVE  \/ UNCHANGED <<members, joined, readSeq>>
         \/ \E h \in Requests : AddStore(h)
         \/ \E b \in Accounts \cup {None} : DropMember(b) /\ UNCHANGED <<lastSeq, req>>
         \/ \E h \in Requests : RemoveStore(h)
         \/ \E a \in Accounts, s \in 1..MaxRead : MarkRead(a, s)
  BY DEF Next, RequestStep, vars, convVars, memberVars, SendStart, SendStore,
         SendDuplicate, SendRefuse, Fanout, DeleteStart, DeleteStore, DeleteMissing,
         DeleteList, AddStart, AddConflict, RemoveStart, RemoveMissing,
         RetentionStart, RetentionStore, Abandon, DeleteAccount,
         JanitorStart, JanitorPurge, Tick, Restart

\* Only a send that is through, or was already, is acknowledged.
LEMMA AckEffect ==
  ASSUME [Next]_vars
  PROVE  \/ acks' = acks
         \/ \E h \in Requests : SendDuplicate(h) \/ Fanout(h)
  BY DEF Next, RequestStep, vars, convVars, memberVars, SendStart, SendStore,
         SendRefuse, DeleteStart, DeleteStore, DeleteMissing,
         DeleteList, AddStart, AddStore, AddConflict, RemoveStart, RemoveStore,
         RemoveMissing, RetentionStart, RetentionStore, Abandon, DeleteAccount,
         MarkRead, JanitorStart, JanitorPurge, Tick, Restart

(***************************************************************************)
(* The inductive invariant, conjunct by conjunct.                          *)
(***************************************************************************)
\* What the three steps that write rows do to them.
LEMMA StoreRow ==
  ASSUME Typed, NEW h \in Requests, SendStore(h)
  PROVE  \E m \in Row :
           /\ m.seq = lastSeq + 1 /\ m.of = 0
           /\ m.sender = req[h].by /\ m.cid = req[h].cid /\ m.cid # None
           /\ \A r \in rows : ~(r.sender = m.sender /\ r.cid = m.cid)
           /\ rows' = rows \cup {m} /\ lastSeq' = lastSeq + 1
<1>1. /\ req[h] \in Request /\ req[h].by \in Accounts /\ req[h].cid \in ClientIds
      /\ lastSeq \in Nat /\ req[h].ts \in Nat
  BY DEF Typed, TypeOK, RequestsFilled, SendStore, Request
<1> DEFINE m == MessageRow(lastSeq + 1, req[h].by, req[h].cid, req[h].ts)
<1>2. m \in Row /\ m.seq = lastSeq + 1 /\ m.of = 0 /\ m.sender = req[h].by /\ m.cid = req[h].cid
  BY <1>1 DEF MessageRow, Row
<1>3. m.cid # None
  BY <1>1, <1>2, ConvLogAssumption
<1>4. \A r \in rows : ~(r.sender = m.sender /\ r.cid = m.cid)
  BY <1>2 DEF SendStore, Stored
<1>5. rows' = rows \cup {m} /\ lastSeq' = lastSeq + 1
  BY DEF SendStore
<1> HIDE DEF m
<1> QED BY <1>2, <1>3, <1>4, <1>5

\* A deletion replaces one message by one record of it at the end of the log.
LEMMA DeleteRow ==
  ASSUME Typed, NEW h \in Requests, DeleteStore(h)
  PROVE  \E m \in rows, d \in Row :
           /\ m.of = 0 /\ m.seq = req[h].seq /\ m \in MessagesAt(req[h].seq)
           /\ d.seq = lastSeq + 1 /\ d.sender = req[h].by /\ d.cid = None
           /\ d.of = m.seq /\ d.ofSender = m.sender
           /\ rows' = {r \in rows : r.seq # m.seq} \cup {d} /\ lastSeq' = lastSeq + 1
<1>1. /\ req[h] \in Request /\ req[h].by \in Accounts /\ lastSeq \in Nat
      /\ req[h].ts \in Nat /\ clock \in Nat
  BY DEF Typed, TypeOK, RequestsFilled, DeleteStore, Request
<1>2. PICK m \in MessagesAt(req[h].seq), t \in req[h].ts..clock :
        rows' = {x \in rows : x.seq # req[h].seq}
                  \cup {RecordRow(lastSeq + 1, req[h].by, t, m)}
  BY DEF DeleteStore
<1>3. m \in rows /\ m \in Row /\ m.seq = req[h].seq /\ m.of = 0
  BY DEF MessagesAt, IsDeletion, Typed, TypeOK
<1> DEFINE d == RecordRow(lastSeq + 1, req[h].by, t, m)
<1>4. /\ d \in Row /\ d.seq = lastSeq + 1 /\ d.sender = req[h].by /\ d.cid = None
      /\ d.of = m.seq /\ d.ofSender = m.sender
  BY <1>1, <1>3 DEF RecordRow, Row
<1>5. lastSeq' = lastSeq + 1
  BY DEF DeleteStore
<1> HIDE DEF d
<1>6. rows' = {x \in rows : x.seq # m.seq} \cup {d}
  BY <1>2, <1>3 DEF d
<1> QED BY <1>2, <1>3, <1>4, <1>5, <1>6

\* The purge adds no row.
LEMMA PurgeRows ==
  ASSUME JanitorPurge
  PROVE  rows' \subseteq rows
  BY DEF JanitorPurge

\* Every row keeps a number of its own, and a client id of its own.
LEMMA NumberedStep ==
  ASSUME IInv, [Next]_vars
  PROVE  RowsNumbered'
<1> USE DEF RowsNumbered
<1>0. /\ Typed /\ RowsNumbered /\ lastSeq \in Nat /\ \A r \in rows : r.seq \in Nat
  BY DEF IInv, Typed, TypeOK, Row
<1>1. CASE UNCHANGED <<rows, lastSeq>>
  BY <1>0, <1>1
<1>2. ASSUME NEW h \in Requests, SendStore(h) PROVE RowsNumbered'
  <2>1. PICK m \in Row :
          /\ m.seq = lastSeq + 1
          /\ \A r \in rows : ~(r.sender = m.sender /\ r.cid = m.cid)
          /\ rows' = rows \cup {m} /\ lastSeq' = lastSeq + 1
    BY <1>0, <1>2, StoreRow
  <2> QED BY <1>0, <2>1
<1>3. ASSUME NEW h \in Requests, DeleteStore(h) PROVE RowsNumbered'
  <2>1. PICK m \in rows, d \in Row :
          /\ d.seq = lastSeq + 1 /\ d.cid = None
          /\ rows' = {r \in rows : r.seq # m.seq} \cup {d} /\ lastSeq' = lastSeq + 1
    BY <1>0, <1>3, DeleteRow
  <2> QED BY <1>0, <2>1
<1>4. CASE JanitorPurge /\ lastSeq' = lastSeq
  BY <1>0, <1>4, PurgeRows
<1> QED BY <1>1, <1>2, <1>3, <1>4, LogEffect

\* A record stays the only trace of its message.
LEMMA RecordsStep ==
  ASSUME IInv, [Next]_vars
  PROVE  RecordsTrue'
<1>0. /\ Typed /\ RowsNumbered /\ RecordsTrue /\ DeletionsEntitled
      /\ lastSeq \in Nat /\ rows \subseteq Row
      /\ \A r \in rows : r.seq \in Nat /\ r.seq \in 1..lastSeq /\ r.of \in Nat
  BY DEF IInv, Typed, TypeOK, Row, RowsNumbered
<1>1. CASE UNCHANGED <<rows, lastSeq>>
  BY <1>0, <1>1 DEF RecordsTrue, IsDeletion
<1>2. ASSUME NEW h \in Requests, SendStore(h) PROVE RecordsTrue'
  <2>1. PICK m \in Row :
          /\ m.seq = lastSeq + 1 /\ m.of = 0
          /\ rows' = rows \cup {m} /\ lastSeq' = lastSeq + 1
    BY <1>0, <1>2, StoreRow
  <2> QED BY <1>0, <2>1 DEF RecordsTrue, IsDeletion
<1>3. ASSUME NEW h \in Requests, DeleteStore(h) PROVE RecordsTrue'
  <2>1. PICK m \in rows, d \in Row :
          /\ m.of = 0 /\ m.seq = req[h].seq /\ m \in MessagesAt(req[h].seq)
          /\ d.seq = lastSeq + 1 /\ d.sender = req[h].by /\ d.cid = None
          /\ d.of = m.seq /\ d.ofSender = m.sender
          /\ rows' = {r \in rows : r.seq # m.seq} \cup {d} /\ lastSeq' = lastSeq + 1
    BY <1>0, <1>3, DeleteRow
  <2>2. d.sender = d.ofSender \/ d.sender \in Admins
    BY <1>0, <1>3, <2>1 DEF DeletionsEntitled, DeleteStore
  <2>3. d.of < d.seq /\ \A r \in rows' : r.seq # d.of
    BY <1>0, <2>1
  <2>4. \A r \in rows : IsDeletion(r) => r.of # m.seq
    BY <1>0, <2>1 DEF RecordsTrue
  <2>5. \A r \in rows : IsDeletion(r) => r.of # d.seq
    BY <1>0, <2>1 DEF RecordsTrue
  <2> QED BY <1>0, <2>1, <2>2, <2>3, <2>4, <2>5 DEF RecordsTrue, IsDeletion
<1>4. CASE JanitorPurge /\ lastSeq' = lastSeq
  BY <1>0, <1>4, PurgeRows DEF RecordsTrue, IsDeletion
<1> QED BY <1>1, <1>2, <1>3, <1>4, LogEffect

\* The last sequence number never falls.
LEMMA LastGrows ==
  ASSUME Typed, [Next]_vars
  PROVE  lastSeq \in Nat /\ lastSeq' \in Nat /\ lastSeq <= lastSeq'
<1>1. lastSeq \in Nat
  BY DEF Typed, TypeOK
<1> QED BY <1>1, LogEffect DEF SendStore, DeleteStore

\* A request in flight holds a number the log has given out.
LEMMA RequestsNumberedStep ==
  ASSUME IInv, [Next]_vars
  PROVE  RequestsNumbered'
<1>0. /\ Typed /\ RequestsNumbered /\ lastSeq \in Nat /\ lastSeq' \in Nat
      /\ lastSeq <= lastSeq' /\ req \in [Requests -> Request] /\ members \in SUBSET Accounts
  BY LastGrows DEF IInv, Typed, TypeOK
<1> SUFFICES ASSUME NEW g \in Requests, req'[g].pc \in {"fanout", "delete", "deleted"}
             PROVE  req'[g].seq \in 1..lastSeq'
  BY DEF RequestsNumbered
<1>1. CASE req'[g] = req[g]
  <2>1. req[g].seq \in 1..lastSeq
    BY <1>0, <1>1 DEF RequestsNumbered
  <2> QED BY <1>0, <1>1, <2>1
<1>2. CASE SendStore(g)
  <2>1. Become(g, At(req[g], "fanout", lastSeq + 1, members)) /\ lastSeq' = lastSeq + 1
    BY <1>2 DEF SendStore
  <2>2. lastSeq + 1 \in Nat /\ "fanout" \in Steps /\ req[g] \in Request
    BY <1>0 DEF Steps
  <2>3. req'[g] = At(req[g], "fanout", lastSeq + 1, members)
    BY <1>0, <2>1, <2>2, AtType, BecomeType
  <2> QED BY <1>0, <2>1, <2>2, <2>3, AtType
<1>3. CASE DeleteStore(g)
  <2>1. Become(g, At(req[g], "deleted", lastSeq + 1, {})) /\ lastSeq' = lastSeq + 1
    BY <1>3 DEF DeleteStore
  <2>2. lastSeq + 1 \in Nat /\ "deleted" \in Steps /\ req[g] \in Request
    BY <1>0 DEF Steps
  <2>3. req'[g] = At(req[g], "deleted", lastSeq + 1, {})
    BY <1>0, <2>1, <2>2, AtType, BecomeType
  <2> QED BY <1>0, <2>1, <2>2, <2>3, AtType
<1>4. CASE DeleteList(g)
  <2>1. Become(g, At(req[g], "fanout", req[g].seq, members)) /\ req[g].pc = "deleted"
    BY <1>4 DEF DeleteList
  <2>2. req[g].seq \in Nat /\ "fanout" \in Steps /\ req[g] \in Request
    BY <1>0 DEF Steps, Request
  <2>3. req'[g].seq = req[g].seq
    BY <1>0, <2>1, <2>2, AtType, BecomeType
  <2>4. req[g].seq \in 1..lastSeq
    BY <1>0, <2>1 DEF RequestsNumbered
  <2> QED BY <1>0, <2>3, <2>4
<1>5. CASE \E a \in Accounts, s \in 1..MaxSeq : DeleteStart(g, a, s)
  <2>1. PICK a \in Accounts, s \in 1..MaxSeq : DeleteStart(g, a, s)
    BY <1>5
  <2> DEFINE r == [Idle EXCEPT !.pc = "delete", !.by = a, !.seq = s, !.ts = clock]
  <2>2. r.seq = s /\ Become(g, r)
    BY <2>1 DEF DeleteStart, Idle
  <2> HIDE DEF r
  <2>3. req'[g].seq = s
    BY <1>0, <2>2 DEF Become
  <2>4. s \in 1..lastSeq
    BY <2>1 DEF DeleteStart, MessagesAt, IInv, RowsNumbered
  <2> QED BY <1>0, <2>3, <2>4
<1> QED BY <1>0, <1>1, <1>2, <1>3, <1>4, <1>5, RequestEffect

\* Whoever deletes is still the one entitled to, after the check and before the row goes.
LEMMA EntitledStep ==
  ASSUME IInv, [Next]_vars
  PROVE  DeletionsEntitled'
<1>0. /\ Typed /\ RowsNumbered /\ RequestsNumbered /\ DeletionsEntitled /\ lastSeq \in Nat
      /\ req \in [Requests -> Request] /\ members \in SUBSET Accounts
      /\ \A r \in rows : r.seq \in 1..lastSeq
  BY DEF IInv, Typed, TypeOK, RowsNumbered
<1> SUFFICES ASSUME NEW g \in Requests, req'[g].pc = "delete", req'[g].by \notin Admins,
                    NEW m \in rows', m.seq = req'[g].seq, ~IsDeletion(m)
             PROVE  m.sender = req'[g].by
  BY DEF DeletionsEntitled, MessagesAt
<1>1. m \in rows' /\ m.seq = req'[g].seq /\ m.of = 0
  BY DEF IsDeletion
<1>2. CASE req'[g] = req[g]
  <2>1. req[g].seq \in 1..lastSeq
    BY <1>0, <1>2 DEF RequestsNumbered
  <2>2. m \in rows
    <3>1. CASE UNCHANGED <<rows, lastSeq>> \/ JanitorPurge
      BY <1>1, <3>1, PurgeRows
    <3>2. ASSUME NEW h \in Requests, SendStore(h) PROVE m \in rows
      <4>1. PICK n \in Row : n.seq = lastSeq + 1 /\ rows' = rows \cup {n}
        BY <1>0, <3>2, StoreRow
      <4> QED BY <1>0, <1>1, <1>2, <2>1, <4>1
    <3>3. ASSUME NEW h \in Requests, DeleteStore(h) PROVE m \in rows
      <4>1. PICK n \in rows, d \in Row :
              d.seq = lastSeq + 1 /\ rows' = {r \in rows : r.seq # n.seq} \cup {d}
        BY <1>0, <3>3, DeleteRow
      <4> QED BY <1>0, <1>1, <1>2, <2>1, <4>1
    <3> QED BY <3>1, <3>2, <3>3, LogEffect
  <2>3. m \in MessagesAt(req[g].seq)
    BY <1>1, <1>2, <2>2 DEF MessagesAt, IsDeletion
  <2> QED BY <1>0, <1>2, <2>3 DEF DeletionsEntitled
<1>3. CASE \E a \in Accounts, s \in 1..MaxSeq : DeleteStart(g, a, s)
  <2>1. PICK a \in Accounts, s \in 1..MaxSeq : DeleteStart(g, a, s)
    BY <1>3
  <2> DEFINE r == [Idle EXCEPT !.pc = "delete", !.by = a, !.seq = s, !.ts = clock]
  <2>2. r.seq = s /\ r.by = a /\ Become(g, r) /\ rows' = rows
    BY <2>1 DEF DeleteStart, Idle, convVars
  <2> HIDE DEF r
  <2>3. req'[g].seq = s /\ req'[g].by = a
    BY <1>0, <2>2 DEF Become
  <2>4. PICK n \in MessagesAt(s) : a = n.sender \/ a \in Admins
    BY <2>1 DEF DeleteStart
  <2>5. n = m
    BY <1>0, <1>1, <2>2, <2>3 DEF MessagesAt, RowsNumbered
  <2> QED BY <2>3, <2>4, <2>5
<1>4. ASSUME SendStore(g) \/ DeleteStore(g) \/ DeleteList(g) PROVE FALSE
  <2>1. PICK p \in {"fanout", "deleted"}, s \in Nat, T \in SUBSET Accounts :
          Become(g, At(req[g], p, s, T))
    <3>1. lastSeq + 1 \in Nat /\ req[g].seq \in Nat /\ {} \in SUBSET Accounts
      BY <1>0 DEF Request
    <3> QED BY <1>0, <1>4, <3>1 DEF SendStore, DeleteStore, DeleteList
  <2>2. p \in Steps /\ req[g] \in Request
    BY <1>0 DEF Steps
  <2>3. req'[g].pc = p
    BY <1>0, <2>1, <2>2, AtType, BecomeType
  <2> QED BY <2>3
<1> QED BY <1>0, <1>2, <1>3, <1>4, RequestEffect

\* A claim is an old one, or the number SendStore has just given out, or the
\* number SendDuplicate has found.
LEMMA ClaimEffect ==
  ASSUME IInv, [Next]_vars, NEW k \in Claims'
  PROVE  \/ k \in Claims
         \/ \E h \in Requests :
              SendStore(h) /\ k = [sender |-> req[h].by, cid |-> req[h].cid, seq |-> lastSeq + 1]
         \/ \E h \in Requests : SendDuplicate(h) /\ \E r \in Stored(req[h].by, req[h].cid) :
              k = [sender |-> req[h].by, cid |-> req[h].cid, seq |-> r.seq]
<1>0. /\ Typed /\ req \in [Requests -> Request] /\ lastSeq \in Nat
      /\ members \in SUBSET Accounts
  BY DEF IInv, Typed, TypeOK
<1>1. CASE k \in acks'
  <2>1. CASE acks' = acks
    BY <1>1, <2>1 DEF Claims
  <2>2. ASSUME NEW h \in Requests, SendDuplicate(h)
        PROVE  \/ k \in Claims
               \/ \E r \in Stored(req[h].by, req[h].cid) :
                    k = [sender |-> req[h].by, cid |-> req[h].cid, seq |-> r.seq]
    BY <1>1, <2>2 DEF SendDuplicate, Claims
  <2>3. ASSUME NEW h \in Requests, Fanout(h) PROVE k \in Claims
    BY <1>1, <2>3 DEF Fanout, Claims
  <2> QED BY <2>1, <2>2, <2>3, AckEffect
<1>2. ASSUME NEW g \in Requests, req'[g].pc = "fanout", req'[g].cid # None,
             k = [sender |-> req'[g].by, cid |-> req'[g].cid, seq |-> req'[g].seq]
      PROVE  \/ k \in Claims
             \/ SendStore(g) /\ k = [sender |-> req[g].by, cid |-> req[g].cid, seq |-> lastSeq + 1]
  <2>1. CASE req'[g] = req[g]
    BY <1>2, <2>1 DEF Claims
  <2>2. CASE SendStore(g)
    <3>1. Become(g, At(req[g], "fanout", lastSeq + 1, members))
      BY <2>2 DEF SendStore
    <3>2. lastSeq + 1 \in Nat /\ "fanout" \in Steps /\ req[g] \in Request
      BY <1>0 DEF Steps
    <3>3. req'[g].by = req[g].by /\ req'[g].cid = req[g].cid /\ req'[g].seq = lastSeq + 1
      BY <1>0, <3>1, <3>2, AtType, BecomeType
    <3> QED BY <1>2, <2>2, <3>3
  <2>3. CASE DeleteList(g)
    <3>1. Become(g, At(req[g], "fanout", req[g].seq, members)) /\ req[g].pc = "deleted"
      BY <2>3 DEF DeleteList
    <3>2. req[g].seq \in Nat /\ "fanout" \in Steps /\ req[g] \in Request
      BY <1>0 DEF Steps, Request
    <3>3. req'[g].cid = req[g].cid
      BY <1>0, <3>1, <3>2, AtType, BecomeType
    <3>4. req[g].cid = None
      BY <1>0, <3>1 DEF Typed, RequestsFilled
    <3> QED BY <1>2, <3>3, <3>4
  <2>4. CASE DeleteStore(g)
    <3>1. Become(g, At(req[g], "deleted", lastSeq + 1, {}))
      BY <2>4 DEF DeleteStore
    <3>2. lastSeq + 1 \in Nat /\ "deleted" \in Steps /\ req[g] \in Request
      BY <1>0 DEF Steps
    <3>3. req'[g].pc = "deleted"
      BY <1>0, <3>1, <3>2, AtType, BecomeType
    <3> QED BY <1>2, <3>3
  <2>5. CASE \E a \in Accounts, s \in 1..MaxSeq : DeleteStart(g, a, s)
    <3>1. PICK a \in Accounts, s \in 1..MaxSeq : DeleteStart(g, a, s)
      BY <2>5
    <3> DEFINE r == [Idle EXCEPT !.pc = "delete", !.by = a, !.seq = s, !.ts = clock]
    <3>2. r.pc = "delete" /\ Become(g, r)
      BY <3>1 DEF DeleteStart, Idle
    <3> HIDE DEF r
    <3> QED BY <1>0, <1>2, <3>2 DEF Become
  <2> QED BY <1>0, <1>2, <2>1, <2>2, <2>3, <2>4, <2>5, RequestEffect
<1>3. k \in acks' \/ \E g \in Requests : /\ req'[g].pc = "fanout" /\ req'[g].cid # None
                                         /\ k = [sender |-> req'[g].by, cid |-> req'[g].cid,
                                                 seq |-> req'[g].seq]
  BY DEF Claims
<1> QED BY <1>1, <1>2, <1>3

\* What a client was told about its message stays true of the log.
LEMMA ClaimsStep ==
  ASSUME IInv, [Next]_vars
  PROVE  ClaimsTrue'
<1>0. /\ Typed /\ RowsNumbered /\ ClaimsTrue /\ lastSeq \in Nat /\ lastSeq' \in Nat
      /\ lastSeq <= lastSeq' /\ req \in [Requests -> Request]
      /\ \A r \in rows : r.seq \in 1..lastSeq
  BY LastGrows DEF IInv, Typed, TypeOK, RowsNumbered
<1> SUFFICES ASSUME NEW k \in Claims'
             PROVE  /\ k.seq \in 1..lastSeq'
                    /\ \A r \in rows' :
                         /\ r.seq = k.seq => r.sender = k.sender /\ r.cid = k.cid
                         /\ r.sender = k.sender /\ r.cid = k.cid => k.seq <= r.seq
  BY DEF ClaimsTrue
<1>1. CASE k \in Claims
  <2>1. /\ k.seq \in 1..lastSeq
        /\ \A r \in rows : /\ r.seq = k.seq => r.sender = k.sender /\ r.cid = k.cid
                           /\ r.sender = k.sender /\ r.cid = k.cid => k.seq <= r.seq
    BY <1>0, <1>1 DEF ClaimsTrue
  <2>2. CASE UNCHANGED <<rows, lastSeq>> \/ (JanitorPurge /\ lastSeq' = lastSeq)
    BY <1>0, <2>1, <2>2, PurgeRows
  <2>3. ASSUME NEW h \in Requests, SendStore(h) \/ DeleteStore(h)
        PROVE  \E n \in Row : n.seq = lastSeq + 1 /\ rows' \subseteq rows \cup {n}
    <3>1. CASE SendStore(h)
      BY <1>0, <3>1, StoreRow
    <3>2. CASE DeleteStore(h)
      <4>1. PICK m \in rows, d \in Row :
              d.seq = lastSeq + 1 /\ rows' = {r \in rows : r.seq # m.seq} \cup {d}
        BY <1>0, <3>2, DeleteRow
      <4> QED BY <4>1
    <3> QED BY <2>3, <3>1, <3>2
  <2>4. ASSUME NEW h \in Requests, SendStore(h) \/ DeleteStore(h)
        PROVE  \A r \in rows' : /\ r.seq = k.seq => r.sender = k.sender /\ r.cid = k.cid
                                /\ r.sender = k.sender /\ r.cid = k.cid => k.seq <= r.seq
    <3>1. PICK n \in Row : n.seq = lastSeq + 1 /\ rows' \subseteq rows \cup {n}
      BY <2>3, <2>4
    <3> QED BY <1>0, <2>1, <3>1
  <2> QED BY <1>0, <2>1, <2>2, <2>4, LogEffect
<1>2. ASSUME NEW h \in Requests, SendStore(h),
             k = [sender |-> req[h].by, cid |-> req[h].cid, seq |-> lastSeq + 1]
      PROVE  /\ k.seq \in 1..lastSeq'
             /\ \A r \in rows' : /\ r.seq = k.seq => r.sender = k.sender /\ r.cid = k.cid
                                 /\ r.sender = k.sender /\ r.cid = k.cid => k.seq <= r.seq
  <2>1. PICK m \in Row :
          /\ m.seq = lastSeq + 1 /\ m.sender = req[h].by /\ m.cid = req[h].cid
          /\ \A r \in rows : ~(r.sender = m.sender /\ r.cid = m.cid)
          /\ rows' = rows \cup {m} /\ lastSeq' = lastSeq + 1
    BY <1>0, <1>2, StoreRow
  <2>2. k.seq = lastSeq + 1 /\ k.sender = m.sender /\ k.cid = m.cid
    BY <1>2, <2>1
  <2> QED BY <1>0, <2>1, <2>2
<1>3. ASSUME NEW h \in Requests, SendDuplicate(h), NEW r0 \in Stored(req[h].by, req[h].cid),
             k = [sender |-> req[h].by, cid |-> req[h].cid, seq |-> r0.seq]
      PROVE  /\ k.seq \in 1..lastSeq'
             /\ \A r \in rows' : /\ r.seq = k.seq => r.sender = k.sender /\ r.cid = k.cid
                                 /\ r.sender = k.sender /\ r.cid = k.cid => k.seq <= r.seq
  <2>1. rows' = rows /\ lastSeq' = lastSeq
    BY <1>3 DEF SendDuplicate, convVars
  <2>2. /\ r0 \in rows /\ r0.sender = k.sender /\ r0.cid = k.cid /\ r0.seq = k.seq
    BY <1>3 DEF Stored
  <2>3. k.cid \in ClientIds /\ k.cid # None
    BY <1>0, <1>3, ConvLogAssumption DEF SendDuplicate, Typed, RequestsFilled
  <2>4. \A r \in rows : r.seq = k.seq \/ (r.sender = k.sender /\ r.cid = k.cid) => r = r0
    BY <1>0, <2>2, <2>3 DEF RowsNumbered
  <2> QED BY <1>0, <2>1, <2>2, <2>4
<1> QED BY <1>1, <1>2, <1>3, ClaimEffect

\* The targets of a frame cover the members that joined before its number.
LEMMA FanoutStep ==
  ASSUME IInv, [Next]_vars
  PROVE  FanoutCovers'
<1>0. /\ Typed /\ FanoutCovers /\ RequestsNumbered /\ lastSeq \in Nat
      /\ req \in [Requests -> Request] /\ members \in SUBSET Accounts
      /\ joined \in [Accounts -> Nat] /\ \A a \in members : joined[a] <= lastSeq
  BY DEF IInv, Typed, TypeOK, ReadWithinLog
<1> SUFFICES ASSUME NEW g \in Requests, req'[g].pc = "fanout",
                    NEW a \in members', joined'[a] < req'[g].seq
             PROVE  a \in req'[g].targets
  BY DEF FanoutCovers
<1>1. ASSUME NEW s \in Nat, Become(g, At(req[g], "fanout", s, members)), members' = members
      PROVE  a \in req'[g].targets
  <2>1. "fanout" \in Steps /\ req[g] \in Request
    BY <1>0 DEF Steps
  <2> DEFINE r == At(req[g], "fanout", s, members)
  <2>2. r.targets = members
    BY <1>0, <2>1 DEF At, Request
  <2>3. req'[g] = r
    BY <1>0, <1>1 DEF Become
  <2> QED BY <1>1, <2>2, <2>3
<1>2. CASE SendStore(g) \/ DeleteList(g)
  <2>1. lastSeq + 1 \in Nat /\ req[g].seq \in Nat
    BY <1>0 DEF Request
  <2> QED BY <1>1, <1>2, <2>1 DEF SendStore, DeleteList, memberVars
<1>3. ASSUME DeleteStore(g) \/ \E b \in Accounts, s \in 1..MaxSeq : DeleteStart(g, b, s)
      PROVE  FALSE
  <2>1. CASE DeleteStore(g)
    <3>1. Become(g, At(req[g], "deleted", lastSeq + 1, {}))
      BY <2>1 DEF DeleteStore
    <3>2. lastSeq + 1 \in Nat /\ "deleted" \in Steps /\ req[g] \in Request
      BY <1>0 DEF Steps
    <3>3. req'[g].pc = "deleted"
      BY <1>0, <3>1, <3>2, AtType, BecomeType
    <3> QED BY <3>3
  <2>2. CASE \E b \in Accounts, s \in 1..MaxSeq : DeleteStart(g, b, s)
    <3>1. PICK b \in Accounts, s \in 1..MaxSeq : DeleteStart(g, b, s)
      BY <2>2
    <3> DEFINE r == [Idle EXCEPT !.pc = "delete", !.by = b, !.seq = s, !.ts = clock]
    <3>2. r.pc = "delete" /\ Become(g, r)
      BY <3>1 DEF DeleteStart, Idle
    <3> HIDE DEF r
    <3> QED BY <1>0, <3>2 DEF Become
  <2> QED BY <1>3, <2>1, <2>2
<1>4. CASE req'[g] = req[g]
  <2>1. req[g].seq \in 1..lastSeq
    BY <1>0, <1>4 DEF RequestsNumbered
  <2>2. a \in members /\ joined[a] < req[g].seq
    <3>1. CASE UNCHANGED <<members, joined, readSeq>>
      BY <1>4, <3>1
    <3>2. ASSUME NEW h \in Requests, AddStore(h) PROVE a \in members /\ joined[a] < req[g].seq
      <4>1. /\ members' = members \cup {req[h].acct} /\ req[h].acct \in Accounts
            /\ joined' = [joined EXCEPT ![req[h].acct] = lastSeq]
        BY <1>0, <3>2 DEF AddStore, Typed, RequestsFilled
      <4> QED BY <1>0, <1>4, <2>1, <4>1
    <3>3. ASSUME NEW b, DropMember(b) PROVE a \in members /\ joined[a] < req[g].seq
      BY <1>0, <1>4, <3>3 DEF DropMember
    <3>4. ASSUME NEW b \in Accounts, NEW s \in 1..MaxRead, MarkRead(b, s)
          PROVE  a \in members /\ joined[a] < req[g].seq
      BY <1>4, <3>4 DEF MarkRead
    <3> QED BY <3>1, <3>2, <3>3, <3>4, MemberEffect DEF RemoveStore
  <2> QED BY <1>0, <1>4, <2>2 DEF FanoutCovers
<1> QED BY <1>0, <1>2, <1>3, <1>4, RequestEffect

\* Nobody has read beyond the log, or joined beyond it.
LEMMA ReadStep ==
  ASSUME IInv, [Next]_vars
  PROVE  ReadWithinLog'
<1>0. /\ Typed /\ ReadWithinLog /\ lastSeq \in Nat /\ lastSeq' \in Nat /\ lastSeq <= lastSeq'
      /\ members \in SUBSET Accounts
      /\ joined \in [Accounts -> Nat] /\ readSeq \in [Accounts -> Nat]
  BY LastGrows DEF IInv, Typed, TypeOK
<1>1. CASE UNCHANGED <<members, joined, readSeq>>
  BY <1>0, <1>1 DEF ReadWithinLog
<1>2. ASSUME NEW h \in Requests, AddStore(h) PROVE ReadWithinLog'
  <2>1. req[h].acct \in Accounts /\ lastSeq' = lastSeq
    BY <1>0, <1>2 DEF AddStore, Typed, RequestsFilled, convVars
  <2> QED BY <1>0, <1>2, <2>1 DEF AddStore, ReadWithinLog
<1>3. ASSUME NEW b, DropMember(b) PROVE ReadWithinLog'
  BY <1>0, <1>3 DEF DropMember, ReadWithinLog
<1>4. ASSUME NEW a \in Accounts, NEW s \in 1..MaxRead, MarkRead(a, s) PROVE ReadWithinLog'
  <2>1. s \in Nat /\ lastSeq' = lastSeq
    BY <1>4, ConvLogAssumption DEF MarkRead, convVars
  <2> QED BY <1>0, <1>4, <2>1 DEF MarkRead, ReadWithinLog
<1> QED BY <1>1, <1>2, <1>3, <1>4, MemberEffect DEF RemoveStore

(***************************************************************************)
(* The theorems.                                                           *)
(***************************************************************************)
\* The invariant of a conversation on the server is inductive: whatever the
\* handlers of messages and members, the janitor and restarts do, in any order.
THEOREM InvariantHolds == Spec => []IInv
<1>1. Init => IInv
  <2> SUFFICES ASSUME Init PROVE IInv
    OBVIOUS
  <2>1. Typed
    BY ConvLogAssumption, IdleType DEF Init, Typed, TypeOK, RequestsFilled, Row, Ack
  <2>2. \A h \in Requests : req[h].pc = "idle"
    BY IdleType DEF Init
  <2>3. Claims = {}
    BY <2>2 DEF Claims, Init
  <2>4. RowsNumbered /\ RecordsTrue /\ RequestsNumbered /\ DeletionsEntitled /\ FanoutCovers
    BY <2>2 DEF Init, RowsNumbered, RecordsTrue, RequestsNumbered, DeletionsEntitled,
                FanoutCovers
  <2>5. ReadWithinLog
    BY <2>1 DEF Init, ReadWithinLog, Typed, TypeOK
  <2> QED BY <2>1, <2>3, <2>4, <2>5 DEF IInv, ClaimsTrue
<1>2. IInv /\ [Next]_vars => IInv'
  <2> SUFFICES ASSUME IInv, [Next]_vars PROVE IInv'
    OBVIOUS
  <2>1. Typed'
    BY TypedStep DEF IInv
  <2> QED BY <2>1, NumberedStep, RecordsStep, RequestsNumberedStep, EntitledStep,
             ClaimsStep, FanoutStep, ReadStep DEF IInv
<1>3. QED BY <1>1, <1>2, PTL DEF Spec

\* Rows keep numbers of their own and no sender has two stored messages under
\* one client id.
THEOREM RowsAreNumbered == Spec => []RowsNumbered
<1>1. IInv => RowsNumbered
  BY DEF IInv
<1>2. QED BY <1>1, InvariantHolds, PTL

\* Deletion records tell the truth, although the right to delete is checked in
\* an earlier step than the deletion.
THEOREM RecordsAreTrue == Spec => []RecordsTrue
<1>1. IInv => RecordsTrue
  BY DEF IInv
<1>2. QED BY <1>1, InvariantHolds, PTL

\* A number once answered to a sender never names anybody else's message.
THEOREM AcksAreHonoured == Spec => []AcksNameTheirMessage
<1>1. IInv => AcksNameTheirMessage
  BY DEF IInv, ClaimsTrue, Claims, AcksNameTheirMessage
<1>2. QED BY <1>1, InvariantHolds, PTL

\* Two answers to one client id differ only when the first message is gone.
THEOREM RetriesAgree == Spec => []RetriesAgreeWhileStored
<1>1. IInv => RetriesAgreeWhileStored
  <2> SUFFICES ASSUME IInv, NEW k1 \in acks, NEW k2 \in acks,
                      k1.sender = k2.sender, k1.cid = k2.cid, k1.seq < k2.seq,
                      NEW r \in rows, r.seq = k1.seq
               PROVE  FALSE
    BY DEF RetriesAgreeWhileStored
  <2>1. r.sender = k2.sender /\ r.cid = k2.cid
    BY DEF IInv, ClaimsTrue, Claims
  <2>2. k2.seq <= r.seq /\ k1.seq \in Nat /\ k2.seq \in Nat
    BY <2>1 DEF IInv, ClaimsTrue, Claims
  <2> QED BY <2>2
<1>2. QED BY <1>1, InvariantHolds, PTL

\* A frame about to be fanned out is addressed to every member who may read it.
THEOREM FanoutReachesReaders == Spec => []FanoutCovers
<1>1. IInv => FanoutCovers
  BY DEF IInv
<1>2. QED BY <1>1, InvariantHolds, PTL

\* A member's read position stays between where he joined and the end.
THEOREM ReadStaysWithinLog == Spec => []ReadWithinLog
<1>1. IInv => ReadWithinLog
  BY DEF IInv
<1>2. QED BY <1>1, InvariantHolds, PTL

(***************************************************************************)
(* Two bounds that hold although what they rest on was read in an earlier  *)
(* step: the age of what the janitor removes, and the size of a group.     *)
(***************************************************************************)
\* What a request about to set the timer carries.
LEMMA RetainEffect ==
  ASSUME Typed, [Next]_vars, NEW g \in Requests, req'[g].pc = "retain"
  PROVE  req'[g] = req[g] \/ req'[g].ts \in Timers
<1>1. req \in [Requests -> Request]
  BY DEF Typed, TypeOK
<1>2. ASSUME NEW h \in Requests, NEW r, Become(h, r),
             r.pc = "retain" => r.ts \in Timers
      PROVE  req'[g] = req[g] \/ req'[g].ts \in Timers
  BY <1>1, <1>2 DEF Become
<1>3. ASSUME NEW h \in Requests,
             \/ SendDuplicate(h) \/ SendRefuse(h) \/ Fanout(h) \/ DeleteMissing(h)
             \/ AddStore(h) \/ AddConflict(h) \/ RemoveStore(h) \/ RemoveMissing(h)
             \/ RetentionStore(h) \/ Abandon(h)
      PROVE  req'[g] = req[g] \/ req'[g].ts \in Timers
  <2>1. Become(h, Idle)
    BY <1>3 DEF SendDuplicate, SendRefuse, Fanout, DeleteMissing, AddStore, AddConflict,
                RemoveStore, RemoveMissing, RetentionStore, Abandon, Finish
  <2> QED BY <2>1, <1>2, IdleType
<1>4. ASSUME NEW h \in Requests, SendStore(h) \/ DeleteStore(h) \/ DeleteList(h)
      PROVE  req'[g] = req[g] \/ req'[g].ts \in Timers
  <2>1. PICK p, s, T : p \in {"fanout", "deleted"} /\ Become(h, At(req[h], p, s, T))
    BY <1>4 DEF SendStore, DeleteStore, DeleteList
  <2>2. At(req[h], p, s, T).pc = p
    BY <1>1 DEF At, Request
  <2> QED BY <2>1, <2>2, <1>2
<1>5. ASSUME NEW h \in Requests, NEW a \in Accounts, NEW b \in Accounts,
             \/ \E c \in ClientIds : SendStart(h, a, c)
             \/ \E s \in 1..MaxSeq : DeleteStart(h, a, s)
             \/ AddStart(h, a, b) \/ RemoveStart(h, a, b)
      PROVE  req'[g] = req[g] \/ req'[g].ts \in Timers
  <2>1. CASE \E c \in ClientIds : SendStart(h, a, c)
    <3>1. PICK c \in ClientIds : SendStart(h, a, c)
      BY <2>1
    <3> QED BY <3>1, <1>2 DEF SendStart, Idle
  <2>2. CASE \E s \in 1..MaxSeq : DeleteStart(h, a, s)
    <3>1. PICK s \in 1..MaxSeq : DeleteStart(h, a, s)
      BY <2>2
    <3> QED BY <3>1, <1>2 DEF DeleteStart, Idle
  <2>3. CASE AddStart(h, a, b) \/ RemoveStart(h, a, b)
    BY <2>3, <1>2 DEF AddStart, RemoveStart, Idle
  <2> QED BY <1>5, <2>1, <2>2, <2>3
<1>6. ASSUME NEW h \in Requests, NEW a \in Accounts, NEW t \in Timers, RetentionStart(h, a, t)
      PROVE  req'[g] = req[g] \/ req'[g].ts \in Timers
  BY <1>6, <1>2 DEF RetentionStart, Idle
<1>7. ASSUME \/ UNCHANGED vars
             \/ \E b \in Accounts : DeleteAccount(b)
             \/ \E a \in Accounts, s \in 1..MaxRead : MarkRead(a, s)
             \/ JanitorStart \/ JanitorPurge \/ Tick
      PROVE  req'[g] = req[g]
  BY <1>7 DEF vars, DeleteAccount, MarkRead, JanitorStart, JanitorPurge, Tick
<1>8. CASE Restart
  BY <1>8, IdleType DEF Restart
<1> QED BY <1>3, <1>4, <1>5, <1>6, <1>7, <1>8 DEF Next, RequestStep

\* What can happen to the timer, the clock and the janitor's cut-off.
LEMMA TimeEffect ==
  ASSUME [Next]_vars
  PROVE  /\ retention' = retention \/ \E h \in Requests : RetentionStore(h)
         /\ clock' = clock \/ clock' = clock + 1
         /\ cutoff' = cutoff \/ cutoff' = -1 \/ JanitorStart
<1> USE DEF vars, convVars, memberVars, SendStart, SendStore, SendDuplicate, SendRefuse,
            Fanout, DeleteStart, DeleteStore, DeleteMissing, DeleteList, AddStart,
            AddStore, AddConflict, RemoveStart, RemoveStore, RemoveMissing,
            RetentionStart, Abandon, DeleteAccount, MarkRead, JanitorPurge, Tick, Restart
<1>1. ASSUME NEW h \in Requests, RequestStep(h)
      PROVE  /\ retention' = retention \/ RetentionStore(h)
             /\ clock' = clock /\ cutoff' = cutoff
  BY <1>1 DEF RequestStep, RetentionStore
<1>2. ASSUME \/ \E b \in Accounts : DeleteAccount(b)
             \/ \E a \in Accounts, s \in 1..MaxRead : MarkRead(a, s)
             \/ JanitorPurge \/ Tick \/ Restart \/ UNCHANGED vars
      PROVE  /\ retention' = retention
             /\ clock' = clock \/ clock' = clock + 1
             /\ cutoff' = cutoff \/ cutoff' = -1
  BY <1>2
<1>3. CASE JanitorStart
  BY <1>3 DEF JanitorStart
<1> QED BY <1>1, <1>2, <1>3 DEF Next

\* The timer in force, and the one behind the cut-off, are timers somebody could set.
LEMMA TimersStep ==
  ASSUME Typed, TimersKnown, [Next]_vars
  PROVE  TimersKnown'
<1>1. /\ clock \in Nat /\ cutoff \in Nat \cup {-1} /\ retention \in Nat
      /\ \A t \in Timers : Effective(t) \in Nat
  BY ConvLogAssumption DEF Typed, TypeOK, Effective
<1>2. retention' \in Timers
  BY TimeEffect DEF TimersKnown, RetentionStore
<1>3. \A g \in Requests : req'[g].pc = "retain" => req'[g].ts \in Timers
  BY RetainEffect DEF TimersKnown
<1>4. ASSUME cutoff' >= 0
      PROVE  \E t \in Timers : Effective(t) > 0 /\ cutoff' + Effective(t) <= clock'
  <2>1. clock' \in Nat /\ clock <= clock'
    BY <1>1, TimeEffect
  <2>2. CASE cutoff' = cutoff
    <3>1. PICK t \in Timers : Effective(t) > 0 /\ cutoff + Effective(t) <= clock
      BY <1>4, <2>2 DEF TimersKnown
    <3>2. cutoff \in Nat /\ Effective(t) \in Nat /\ clock \in Nat
      BY <1>1, <1>4, <2>2
    <3>3. cutoff' + Effective(t) <= clock'
      BY <2>1, <2>2, <3>1, <3>2
    <3> QED BY <3>1, <3>3
  <2>3. CASE JanitorStart
    <3>1. Effective(retention) > 0 /\ cutoff' = clock - Effective(retention)
      BY <2>3 DEF JanitorStart
    <3>2. retention \in Timers /\ Effective(retention) \in Nat
      BY <1>1 DEF TimersKnown
    <3>3. cutoff' + Effective(retention) <= clock'
      BY <1>1, <2>1, <3>1, <3>2
    <3> QED BY <3>1, <3>2, <3>3
  <2>4. CASE cutoff' = -1
    BY <1>4, <2>4
  <2> QED BY <2>2, <2>3, <2>4, TimeEffect
<1> QED BY <1>2, <1>3, <1>4 DEF TimersKnown

\* Nothing is purged that has not outlived a timer somebody could set, however
\* the timer is changed between the janitor's two steps.
THEOREM NothingLostEarly == Spec => NothingExpiresEarly
<1>1. Init => TimersKnown
  BY ConvLogAssumption, IdleType DEF Init, TimersKnown
<1>2. IInv => Typed
  BY DEF IInv
<1>3. Typed /\ TimersKnown /\ [Next]_vars =>
        [\A r \in rows \ rows' :
           \/ \E d \in rows' : d.of = r.seq
           \/ \E t \in Timers : Effective(t) > 0 /\ r.ts + Effective(t) < clock]_vars
  <2> SUFFICES ASSUME Typed, TimersKnown, [Next]_vars, NEW r \in rows \ rows'
               PROVE  \/ \E d \in rows' : d.of = r.seq
                      \/ \E t \in Timers : Effective(t) > 0 /\ r.ts + Effective(t) < clock
    OBVIOUS
  <2>1. CASE UNCHANGED <<rows, lastSeq>>
    BY <2>1
  <2>2. ASSUME NEW h \in Requests, SendStore(h) PROVE FALSE
    BY <2>2 DEF SendStore
  <2>3. ASSUME NEW h \in Requests, DeleteStore(h) PROVE \E d \in rows' : d.of = r.seq
    <3>1. PICK m \in rows, d \in Row :
            d.of = m.seq /\ rows' = {x \in rows : x.seq # m.seq} \cup {d}
      BY <2>3, DeleteRow
    <3> QED BY <3>1
  <2>4. CASE JanitorPurge
    <3>1. r \in Row /\ r.ts \in Nat /\ cutoff \in Nat \cup {-1} /\ clock \in Nat
      BY DEF Typed, TypeOK, Row
    <3>2. cutoff >= 0 /\ r.ts < cutoff
      BY <2>4, <3>1 DEF JanitorPurge
    <3>3. PICK t \in Timers : Effective(t) > 0 /\ cutoff + Effective(t) <= clock
      BY <3>2 DEF TimersKnown
    <3>4. Effective(t) \in Nat
      BY ConvLogAssumption DEF Effective
    <3> QED BY <3>1, <3>2, <3>3, <3>4
  <2> QED BY <2>1, <2>2, <2>3, <2>4, LogEffect
<1>4. Typed /\ TimersKnown /\ [Next]_vars => TimersKnown'
  BY TimersStep
<1>5. QED BY <1>1, <1>2, <1>3, <1>4, InvariantHolds, PTL DEF Spec, NothingExpiresEarly

(***************************************************************************)
(* The size of a group.                                                    *)
(***************************************************************************)
\* What a step does to the group and to the requests about to enlarge it.
LEMMA RoomEffect ==
  ASSUME Typed, [Next]_vars
  PROVE  /\ kind' = kind
         /\ \/ members' \subseteq members /\ Adding' \subseteq Adding
            \/ \E h \in Requests : \/ \E a, b \in Accounts : AddStart(h, a, b)
                                  \/ AddStore(h)
<1>1. req \in [Requests -> Request]
  BY DEF Typed, TypeOK
<1>2. ASSUME NEW h \in Requests, NEW r, Become(h, r), r.pc # "add"
      PROVE  Adding' \subseteq Adding
  BY <1>1, <1>2 DEF Become, Adding
<1>3. ASSUME NEW h \in Requests,
             \/ SendDuplicate(h) \/ SendRefuse(h) \/ Fanout(h) \/ DeleteMissing(h)
             \/ AddConflict(h) \/ RemoveStore(h) \/ RemoveMissing(h)
             \/ RetentionStore(h) \/ Abandon(h)
      PROVE  kind' = kind /\ members' \subseteq members /\ Adding' \subseteq Adding
  <2>1. Become(h, Idle)
    BY <1>3 DEF SendDuplicate, SendRefuse, Fanout, DeleteMissing, AddConflict,
                RemoveStore, RemoveMissing, RetentionStore, Abandon, Finish
  <2>2. kind' = kind /\ members' \subseteq members
    BY <1>3 DEF SendDuplicate, SendRefuse, Fanout, DeleteMissing, AddConflict,
                RemoveStore, RemoveMissing, RetentionStore, Abandon, DropMember,
                convVars, memberVars
  <2> QED BY <2>1, <2>2, <1>2, IdleType
<1>4. ASSUME NEW h \in Requests, SendStore(h) \/ DeleteStore(h) \/ DeleteList(h)
      PROVE  kind' = kind /\ members' \subseteq members /\ Adding' \subseteq Adding
  <2>1. PICK p, s, T : p \in {"fanout", "deleted"} /\ Become(h, At(req[h], p, s, T))
    BY <1>4 DEF SendStore, DeleteStore, DeleteList
  <2>2. At(req[h], p, s, T).pc = p
    BY <1>1 DEF At, Request
  <2>3. kind' = kind /\ members' = members
    BY <1>4 DEF SendStore, DeleteStore, DeleteList, convVars, memberVars
  <2> QED BY <2>1, <2>2, <2>3, <1>2
<1>5. ASSUME NEW h \in Requests, NEW a \in Accounts,
             \/ \E c \in ClientIds : SendStart(h, a, c)
             \/ \E s \in 1..MaxSeq : DeleteStart(h, a, s)
             \/ \E b \in Accounts : RemoveStart(h, a, b)
             \/ \E t \in Timers : RetentionStart(h, a, t)
      PROVE  kind' = kind /\ members' \subseteq members /\ Adding' \subseteq Adding
  <2>1. kind' = kind /\ members' = members
    BY <1>5 DEF SendStart, DeleteStart, RemoveStart, RetentionStart, convVars, memberVars
  <2>2. CASE \E c \in ClientIds : SendStart(h, a, c)
    <3>1. PICK c \in ClientIds : SendStart(h, a, c)
      BY <2>2
    <3> QED BY <3>1, <2>1, <1>2 DEF SendStart, Idle
  <2>3. CASE \E s \in 1..MaxSeq : DeleteStart(h, a, s)
    <3>1. PICK s \in 1..MaxSeq : DeleteStart(h, a, s)
      BY <2>3
    <3> QED BY <3>1, <2>1, <1>2 DEF DeleteStart, Idle
  <2>4. CASE \E b \in Accounts : RemoveStart(h, a, b)
    <3>1. PICK b \in Accounts : RemoveStart(h, a, b)
      BY <2>4
    <3> QED BY <3>1, <2>1, <1>2 DEF RemoveStart, Idle
  <2>5. CASE \E t \in Timers : RetentionStart(h, a, t)
    <3>1. PICK t \in Timers : RetentionStart(h, a, t)
      BY <2>5
    <3> QED BY <3>1, <2>1, <1>2 DEF RetentionStart, Idle
  <2> QED BY <1>5, <2>2, <2>3, <2>4, <2>5
<1>6. ASSUME \/ UNCHANGED vars
             \/ \E b \in Accounts : DeleteAccount(b)
             \/ \E a \in Accounts, s \in 1..MaxRead : MarkRead(a, s)
             \/ JanitorStart \/ JanitorPurge \/ Tick
      PROVE  kind' = kind /\ members' \subseteq members /\ Adding' \subseteq Adding
  BY <1>6 DEF vars, convVars, memberVars, DeleteAccount, DropMember, MarkRead,
              JanitorStart, JanitorPurge, Tick, Adding
<1>7. CASE Restart
  BY <1>7, IdleType DEF Restart, Adding, convVars, memberVars
<1>8. ASSUME NEW h \in Requests,
             (\E a, b \in Accounts : AddStart(h, a, b)) \/ AddStore(h)
      PROVE  kind' = kind
  BY <1>8 DEF AddStart, AddStore, convVars
<1> QED BY <1>3, <1>4, <1>5, <1>6, <1>7, <1>8 DEF Next, RequestStep

\* Members and additions under way stay below the limit and the requests together.
LEMMA RoomStep ==
  ASSUME IsFiniteSet(Accounts), IsFiniteSet(Requests), Typed, RoomCounted, [Next]_vars
  PROVE  RoomCounted'
<1>1. req \in [Requests -> Request] /\ members \subseteq Accounts
  BY DEF Typed, TypeOK
<1>2. /\ IsFiniteSet(members) /\ IsFiniteSet(Adding)
      /\ Cardinality(members) \in Nat /\ Cardinality(Adding) \in Nat
      /\ Cardinality(Requests) \in Nat /\ MaxGroupMembers \in Nat
  BY <1>1, FS_Subset, FS_CardinalityType, ConvLogAssumption DEF Adding
<1>3. CASE kind' = kind /\ members' \subseteq members /\ Adding' \subseteq Adding
  <2>1. /\ Cardinality(members') \in Nat /\ Cardinality(Adding') \in Nat
        /\ Cardinality(members') <= Cardinality(members)
        /\ Cardinality(Adding') <= Cardinality(Adding)
    BY <1>2, <1>3, FS_Subset, FS_CardinalityType
  <2> QED BY <1>2, <1>3, <2>1 DEF RoomCounted
<1>4. ASSUME NEW h \in Requests, NEW a \in Accounts, NEW b \in Accounts, AddStart(h, a, b)
      PROVE  RoomCounted'
  <2>1. /\ kind' = kind /\ kind = "group" /\ members' = members /\ h \notin Adding
        /\ Cardinality(members) + 1 <= MaxGroupMembers
    BY <1>4 DEF AddStart, convVars, memberVars, Adding
  <2>2. Adding' = Adding \cup {h}
    BY <1>1, <1>4 DEF AddStart, Become, Idle, Adding
  <2>3. Cardinality(Adding') <= Cardinality(Requests) /\ Cardinality(Adding') \in Nat
    BY <1>2, FS_Subset, FS_CardinalityType DEF Adding
  <2> QED BY <1>2, <2>1, <2>3 DEF RoomCounted
<1>5. ASSUME NEW h \in Requests, AddStore(h)
      PROVE  RoomCounted'
  <2>1. /\ kind' = kind /\ h \in Adding /\ req[h].acct \notin members
        /\ members' = members \cup {req[h].acct}
    BY <1>5 DEF AddStore, convVars, Adding
  <2>2. Adding' = Adding \ {h}
    BY <1>1, <1>5, FinishType DEF AddStore, Adding
  <2>3. kind' = "group"
    BY <2>1 DEF RoomCounted
  <2>4. /\ Cardinality(members') = Cardinality(members) + 1
        /\ Cardinality(Adding') = Cardinality(Adding) - 1
    BY <1>2, <2>1, <2>2, FS_AddElement, FS_RemoveElement
  <2> QED BY <1>2, <2>1, <2>3, <2>4 DEF RoomCounted
<1> QED BY <1>3, <1>4, <1>5, RoomEffect

\* However many requests add members at the same time, the group exceeds its
\* limit by fewer than there are requests.
THEOREM GroupStaysBounded ==
  ASSUME IsFiniteSet(Accounts), IsFiniteSet(Requests), Requests # {}
  PROVE  Spec => []OvershootBounded
<1>1. Init => RoomCounted
  <2> SUFFICES ASSUME Init PROVE RoomCounted
    OBVIOUS
  <2>1. Adding = {}
    BY IdleType DEF Init, Adding
  <2>2. Cardinality(Adding) = 0
    BY <2>1, FS_EmptySet
  <2>3. Cardinality(Requests) \in Nat /\ Cardinality(Requests) # 0
    BY FS_EmptySet, FS_CardinalityType
  <2>4. CASE kind = "direct"
    BY <2>1, <2>4 DEF RoomCounted
  <2>5. CASE kind = "group" /\ members \in SUBSET Accounts /\ Cardinality(members) <= MaxGroupMembers
    <3>1. Cardinality(members) \in Nat
      BY <2>5, FS_Subset, FS_CardinalityType
    <3> QED BY <2>2, <2>3, <2>5, <3>1, ConvLogAssumption DEF RoomCounted
  <2> QED BY <2>4, <2>5 DEF Init
<1>2. IInv => Typed
  BY DEF IInv
<1>3. Typed /\ RoomCounted /\ [Next]_vars => RoomCounted'
  BY RoomStep
<1>4. Typed /\ RoomCounted => OvershootBounded
  <2> SUFFICES ASSUME Typed, RoomCounted PROVE OvershootBounded
    OBVIOUS
  <2>1. /\ Cardinality(members) \in Nat /\ Cardinality(Adding) \in Nat
        /\ Cardinality(Requests) \in Nat /\ MaxGroupMembers \in Nat
    BY FS_Subset, FS_CardinalityType, ConvLogAssumption DEF Typed, TypeOK, Adding
  <2> QED BY <2>1 DEF RoomCounted, OvershootBounded
<1>5. QED BY <1>1, <1>2, <1>3, <1>4, InvariantHolds, PTL DEF Spec

(***************************************************************************)
(* ConvLog implements MessageLog: the rows of a conversation are an        *)
(* append-only log, for every interleaving of its requests.                *)
(***************************************************************************)
\* A position without rows reads as nothing.
LEMMA SlotEmpty == Slot({}) = Log!Nothing
  BY DEF Slot, Log!Nothing

\* A position with one row reads as that row.
LEMMA SlotSingle ==
  ASSUME NEW r
  PROVE  Slot({r}) = EntryOf(r)
  BY DEF Slot

\* The rows of a numbered log at the position of one of them.
LEMMA OnlyRow ==
  ASSUME RowsNumbered, NEW r \in rows
  PROVE  {x \in rows : x.seq = r.seq} = {r}
  BY DEF RowsNumbered

\* The view of the log at one of its positions.
LEMMA ViewAt ==
  ASSUME NEW i \in 1..lastSeq
  PROVE  LogView[i] = Slot({r \in rows : r.seq = i})
  BY DEF LogView

(***************************************************************************)
(* The three steps that change the log.                                    *)
(***************************************************************************)
\* A send appends a message to the abstract log.
LEMMA StoreAppends ==
  ASSUME IInv, NEW h \in Requests, SendStore(h)
  PROVE  Log!Append
<1>1. /\ Typed /\ RowsNumbered /\ lastSeq \in Nat
      /\ req[h].by \in Accounts /\ req[h].cid \in ClientIds
  BY DEF IInv, Typed, TypeOK, RequestsFilled, SendStore
<1>2. PICK m \in Row :
        /\ m.seq = lastSeq + 1 /\ m.of = 0
        /\ m.sender = req[h].by /\ m.cid = req[h].cid
        /\ rows' = rows \cup {m} /\ lastSeq' = lastSeq + 1
  BY <1>1, StoreRow
<1> DEFINE body == <<m.sender, m.cid>>
<1>3. body \in Accounts \X ClientIds
  BY <1>1, <1>2
<1>4. EntryOf(m) = Log!Message(body)
  BY <1>2 DEF EntryOf, IsDeletion, Log!Message
<1>5. LogView' = Log!Extended(LogView, lastSeq, Log!Message(body))
  <2>1. ASSUME NEW i \in 1..(lastSeq + 1)
        PROVE  Slot({r \in rows' : r.seq = i}) =
                 IF i = lastSeq + 1 THEN Log!Message(body) ELSE LogView[i]
    <3>1. CASE i = lastSeq + 1
      <4>1. {r \in rows' : r.seq = i} = {m}
        BY <1>1, <1>2, <3>1 DEF RowsNumbered
      <4> QED BY <4>1, <3>1, <1>4, SlotSingle
    <3>2. CASE i # lastSeq + 1
      <4>1. i \in 1..lastSeq
        BY <1>1, <3>2
      <4>2. {r \in rows' : r.seq = i} = {r \in rows : r.seq = i}
        BY <1>2, <3>2
      <4> QED BY <4>1, <4>2, <3>2, ViewAt
    <3> QED BY <3>1, <3>2
  <2> HIDE DEF body
  <2>2. LogView' = [i \in 1..(lastSeq + 1) |-> Slot({r \in rows' : r.seq = i})]
    BY <1>2 DEF LogView
  <2> QED BY <2>1, <2>2 DEF Log!Extended
<1> QED BY <1>2, <1>3, <1>5 DEF Log!Append

\* A deletion takes the message out and appends its record.
LEMMA DeleteRecords ==
  ASSUME IInv, NEW h \in Requests, DeleteStore(h)
  PROVE  Log!Delete
<1>1. /\ Typed /\ RowsNumbered /\ lastSeq \in Nat /\ req[h].by \in Accounts
      /\ rows \subseteq Row
  BY DEF IInv, Typed, TypeOK, RequestsFilled, DeleteStore
<1>2. PICK m \in rows, d \in Row :
        /\ m.of = 0
        /\ d.seq = lastSeq + 1 /\ d.sender = req[h].by /\ d.of = m.seq
        /\ rows' = {r \in rows : r.seq # m.seq} \cup {d} /\ lastSeq' = lastSeq + 1
  BY <1>1, DeleteRow
<1>3. m.seq \in 1..lastSeq /\ m.seq # 0
  BY <1>1, <1>2 DEF RowsNumbered
<1>4. LogView[m.seq].kind = "message"
  <2>1. LogView[m.seq] = EntryOf(m)
    BY <1>1, <1>3, ViewAt, OnlyRow, SlotSingle
  <2> QED BY <2>1, <1>2 DEF EntryOf, IsDeletion
<1>5. EntryOf(d) = Log!Record(d.sender, m.seq)
  BY <1>2, <1>3 DEF EntryOf, IsDeletion, Log!Record
<1> DEFINE rest == Log!Without(LogView, lastSeq, {m.seq})
<1>6. LogView' = Log!Extended(rest, lastSeq, Log!Record(d.sender, m.seq))
  <2>1. ASSUME NEW i \in 1..(lastSeq + 1)
        PROVE  Slot({r \in rows' : r.seq = i}) =
                 IF i = lastSeq + 1 THEN Log!Record(d.sender, m.seq) ELSE rest[i]
    <3>1. CASE i = lastSeq + 1
      <4>1. {r \in rows' : r.seq = i} = {d}
        BY <1>1, <1>2, <3>1 DEF RowsNumbered
      <4> QED BY <4>1, <3>1, <1>5, SlotSingle
    <3>2. CASE i = m.seq
      <4>1. {r \in rows' : r.seq = i} = {}
        BY <1>1, <1>2, <1>3, <3>2
      <4>2. rest[i] = Log!Nothing
        BY <1>3, <3>2 DEF Log!Without
      <4>3. i # lastSeq + 1
        BY <1>1, <1>3, <3>2
      <4> HIDE DEF rest
      <4> QED BY <4>1, <4>2, <4>3, SlotEmpty
    <3>3. CASE i # lastSeq + 1 /\ i # m.seq
      <4>1. i \in 1..lastSeq
        BY <1>1, <3>3
      <4>2. {r \in rows' : r.seq = i} = {r \in rows : r.seq = i}
        BY <1>2, <3>3
      <4>3. rest[i] = LogView[i]
        BY <4>1, <3>3 DEF Log!Without
      <4> QED BY <4>1, <4>2, <4>3, <3>3, ViewAt
    <3> QED BY <3>1, <3>2, <3>3
  <2> HIDE DEF rest
  <2>2. LogView' = [i \in 1..(lastSeq + 1) |-> Slot({r \in rows' : r.seq = i})]
    BY <1>2 DEF LogView
  <2> QED BY <2>1, <2>2 DEF Log!Extended
<1> QED BY <1>1, <1>2, <1>3, <1>4, <1>6 DEF Log!Delete

\* The purge takes out whatever is old enough, and nothing is appended.
LEMMA PurgeExpires ==
  ASSUME IInv, JanitorPurge, lastSeq' = lastSeq
  PROVE  Log!Expire
<1>1. RowsNumbered /\ rows' \subseteq rows
  BY PurgeRows DEF IInv
<1> DEFINE S == {i \in 1..lastSeq : \A r \in rows' : r.seq # i}
<1>2. LogView' = Log!Without(LogView, lastSeq, S)
  <2>1. ASSUME NEW i \in 1..lastSeq
        PROVE  Slot({r \in rows' : r.seq = i}) = IF i \in S THEN Log!Nothing ELSE LogView[i]
    <3>1. CASE i \in S
      <4>1. {r \in rows' : r.seq = i} = {}
        BY <3>1
      <4> QED BY <4>1, <3>1, SlotEmpty
    <3>2. CASE i \notin S
      <4>1. PICK r \in rows' : r.seq = i
        BY <3>2
      <4>2. {x \in rows : x.seq = i} = {r}
        BY <1>1, <4>1, OnlyRow
      <4>3. {x \in rows' : x.seq = i} = {r}
        BY <1>1, <4>1, <4>2
      <4> QED BY <4>2, <4>3, <3>2, ViewAt
    <3> QED BY <3>1, <3>2
  <2> HIDE DEF S
  <2>2. LogView' = [i \in 1..lastSeq |-> Slot({r \in rows' : r.seq = i})]
    BY DEF LogView
  <2> QED BY <2>1, <2>2 DEF Log!Without
<1>3. S \in SUBSET (1..lastSeq)
  OBVIOUS
<1> HIDE DEF S
<1> QED BY <1>2, <1>3 DEF Log!Expire

(***************************************************************************)
(* The refinement.                                                         *)
(***************************************************************************)
\* Every behaviour of a conversation's rows is a behaviour of the append-only
\* log: no number is given out twice and none comes back to life.
THEOREM LogImplemented == Spec => ImplementsLog
<1>1. Init => Log!Init
  <2> SUFFICES ASSUME Init PROVE Log!Init
    OBVIOUS
  <2>1. lastSeq = 0
    BY DEF Init
  <2>2. LogView = [i \in 1..0 |-> Slot({r \in rows : r.seq = i})]
    BY <2>1 DEF LogView
  <2>3. 1..0 = {}
    OBVIOUS
  <2>4. LogView = [i \in 1..0 |-> Log!Nothing]
    BY <2>2, <2>3
  <2> QED BY <2>1, <2>4 DEF Log!Init
<1>2. IInv /\ [Next]_vars => [Log!Next]_(Log!logVars)
  <2> SUFFICES ASSUME IInv, [Next]_vars PROVE [Log!Next]_(Log!logVars)
    OBVIOUS
  <2>1. CASE UNCHANGED <<rows, lastSeq>>
    BY <2>1 DEF LogView, Log!logVars
  <2>2. ASSUME NEW h \in Requests, SendStore(h) \/ DeleteStore(h)
        PROVE  Log!Next
    BY <2>2, StoreAppends, DeleteRecords DEF Log!Next
  <2>3. CASE JanitorPurge /\ lastSeq' = lastSeq
    BY <2>3, PurgeExpires DEF Log!Next
  <2> QED BY <2>1, <2>2, <2>3, LogEffect
<1>3. QED BY <1>1, <1>2, InvariantHolds, PTL DEF Spec, ImplementsLog, Log!Spec
=============================================================================
