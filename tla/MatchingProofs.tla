--------------------------- MODULE MatchingProofs ---------------------------
(***************************************************************************)
(* Proofs about Matching, for every set of users and requests and every    *)
(* value of the bounds.  The invariant that carries them all is TypeInv:   *)
(* the type invariant and what each control point knows of its locals.     *)
(***************************************************************************)
EXTENDS Matching, TLAPS

USE MatchingAssumption DEF MatchingAssumption

(* What the continuation at control point l uses of its locals x. *)
LocalAt(l, x) ==
    /\ l \notin {"idle", "done", "lost"} => x.user \in Users
    /\ l \in {"claim", "create", "announce"} => x.partner \in Users \ {x.user}
    /\ l = "check" => \A c \in x.cands : c.id \in Users \ {x.user}
    /\ l \in {"restart", "report", "end_read", "end_write"} => x.sess \in Reqs
    /\ l \in {"report", "end_read", "end_write"} => x.reason # "none"

LocalsOK == \A r \in Reqs : LocalAt(pc[r], req[r])

TypeInv == TypeOK /\ LocalsOK

-----------------------------------------------------------------------------
(* Each part of the state, by the operator that changes it. *)

LEMMA BlankType == Blank \in Local
  BY DEF Blank, Local, DefaultWish, Wish

LEMMA FinishType ==
    ASSUME HandlersOK, LocalsOK, NEW r \in Reqs, Finish(r)
    PROVE  HandlersOK' /\ LocalsOK'
  BY BlankType DEF HandlersOK, LocalsOK, LocalAt, Finish, Goto, PC

LEMMA GotoType ==
    ASSUME HandlersOK, LocalsOK, NEW r \in Reqs, NEW l \in PC,
           NEW x \in Local, LocalAt(l, x),
           Goto(r, l), req' = [req EXCEPT ![r] = x]
    PROVE  HandlersOK' /\ LocalsOK'
  BY DEF HandlersOK, LocalsOK, Goto

LEMMA MoveType ==
    ASSUME HandlersOK, LocalsOK, NEW r \in Reqs, NEW l \in PC,
           LocalAt(l, req[r]), Goto(r, l), UNCHANGED req
    PROVE  HandlersOK' /\ LocalsOK'
  BY DEF HandlersOK, LocalsOK, Goto

LEMMA SameHandlers ==
    ASSUME HandlersOK, LocalsOK, UNCHANGED <<pc, req>>
    PROVE  HandlersOK' /\ LocalsOK'
  BY DEF HandlersOK, LocalsOK

LEMMA SameServer ==
    ASSUME ServerOK, UNCHANGED server
    PROVE  ServerOK'
  BY DEF ServerOK, server

LEMMA SameTables ==
    ASSUME TablesOK, UNCHANGED tables
    PROVE  TablesOK'
  BY DEF TablesOK, tables

LEMMA DropType ==
    ASSUME ServerOK, NEW keys, waiting' = Drop(waiting, keys)
    PROVE  /\ DOMAIN waiting' \subseteq Users
           /\ waiting' \in [DOMAIN waiting' -> Entry]
  BY DEF ServerOK, Drop

LEMMA EnqueueType ==
    ASSUME ServerOK, NEW u \in Users, NEW wish \in Wish, Enqueue(u, wish),
           UNCHANGED <<phase, conn, reclaim>>
    PROVE  ServerOK'
  <1>1. [wish |-> wish, at |-> clock, fresh |-> TRUE] \in Entry
    BY DEF ServerOK, Entry
  <1>2. QED
    BY <1>1 DEF ServerOK, Enqueue, Put

LEMMA InformType ==
    ASSUME informed \in [Users -> SUBSET Reqs], NEW U, NEW s \in Reqs,
           Inform(U, s)
    PROVE  informed' \in [Users -> SUBSET Reqs]
  BY DEF Inform

LEMMA FallType ==
    ASSUME TypeInv, Fall
    PROVE  /\ ServerOK' /\ HandlersOK' /\ LocalsOK' /\ TablesOK'
           /\ informed' \in [Users -> SUBSET Reqs]
  <1>1. ServerOK'
    BY DEF TypeInv, TypeOK, ServerOK, Fall
  <1>2. HandlersOK' /\ LocalsOK'
    BY BlankType DEF TypeInv, TypeOK, HandlersOK, LocalsOK, LocalAt, PC, Fall
  <1>3. TablesOK'
    BY SameTables DEF TypeInv, TypeOK, Fall
  <1>4. QED
    BY <1>1, <1>2, <1>3 DEF Fall

-----------------------------------------------------------------------------
(* The handlers, one by one. *)

LEMMA InitType == Init => TypeInv
  BY BlankType DEF Init, TypeInv, TypeOK, ServerOK, HandlersOK, TablesOK,
     LocalsOK, LocalAt, PC, Session, NoSession

(* A request goes on after an await. *)
LEMMA StepType ==
    ASSUME TypeInv, NEW r \in Reqs, Step(r)
    PROVE  TypeInv'
  <1> USE DEF TypeInv, TypeOK
  <1> DEFINE x == req[r]
  <1>0. x \in Local /\ LocalAt(pc[r], x)
    BY DEF HandlersOK, LocalsOK
  <1>1. CASE ReadSession(r)
    <2>1. CASE Finish(r)
      BY <1>1, <2>1, FinishType, SameServer, SameTables DEF ReadSession, bounds
    <2>2. CASE Goto(r, "snapshot") /\ UNCHANGED req /\ pc[r] = "session"
      <3>1. LocalAt("snapshot", x)
        BY <1>0, <2>2 DEF LocalAt
      <3>2. HandlersOK' /\ LocalsOK'
        BY <2>2, <3>1, MoveType DEF PC
      <3>3. QED
        BY <1>1, <3>2, SameServer, SameTables DEF ReadSession, bounds
    <2>3. ASSUME NEW s \in Reqs, pc[r] \in {"session", "sync"},
                 Goto(r, "restart"), req' = [req EXCEPT ![r].sess = s]
          PROVE  TypeInv'
      <3>1. /\ [x EXCEPT !.sess = s] \in Local
            /\ LocalAt("restart", [x EXCEPT !.sess = s])
        BY <1>0, <2>3 DEF Local, LocalAt
      <3>2. HandlersOK' /\ LocalsOK'
        BY <2>3, <3>1, GotoType DEF PC
      <3>3. QED
        BY <1>1, <3>2, SameServer, SameTables DEF ReadSession, bounds
    <2>4. QED
      BY <1>1, <2>1, <2>2, <2>3 DEF ReadSession, ActiveOf
  <1>2. CASE RestartSession(r)
    <2>1. x.sess \in Reqs
      BY <1>0, <1>2 DEF RestartSession, LocalAt
    <2>2. informed' \in [Users -> SUBSET Reqs]
      BY <1>2, <2>1, InformType DEF RestartSession
    <2>3. QED
      BY <1>2, <2>2, FinishType, SameServer, SameTables
      DEF RestartSession, bounds
  <1>3. CASE JoinSnapshot(r)
    <2> DEFINE found == Candidates(x.user, x.wish)
    <2>0. x.user \in Users /\ x.wish \in Wish
      BY <1>0, <1>3 DEF JoinSnapshot, LocalAt, Local
    <2>1. CASE found # {}
      <3>1. /\ found \in SUBSET [id : Users, at : Nat]
            /\ \A c \in found : c.id \in Users \ {x.user}
        BY DEF Candidates, ServerOK, Entry
      <3>2. /\ [x EXCEPT !.cands = found] \in Local
            /\ LocalAt("check", [x EXCEPT !.cands = found])
        BY <1>0, <2>0, <3>1 DEF Local, LocalAt
      <3>3. HandlersOK' /\ LocalsOK'
        BY <1>3, <2>1, <3>2, GotoType DEF JoinSnapshot, PC, Awaiting
      <3>4. ServerOK'
        BY <1>3, <2>1, SameServer DEF JoinSnapshot, server
      <3>5. QED
        BY <1>3, <3>3, <3>4, SameTables DEF JoinSnapshot, bounds
    <2>2. CASE found = {}
      <3>1. LocalAt("upsert", x)
        BY <2>0 DEF LocalAt
      <3>2. HandlersOK' /\ LocalsOK'
        BY <1>3, <2>2, <3>1, MoveType DEF JoinSnapshot, PC, Awaiting
      <3>3. ServerOK'
        BY <1>3, <2>0, <2>2, EnqueueType DEF JoinSnapshot
      <3>4. QED
        BY <1>3, <3>2, <3>3, SameTables DEF JoinSnapshot, bounds
    <2>3. QED
      BY <2>1, <2>2
  <1>4. CASE JoinCheckBlock(r)
    <2>0. x.user \in Users
      BY <1>0, <1>4 DEF JoinCheckBlock, LocalAt
    <2>1. ASSUME NEW c \in x.cands, Goto(r, "claim"), pc[r] = "check",
                 req' = [req EXCEPT ![r] = [@ EXCEPT !.partner = c.id,
                                                    !.cands = {}]]
          PROVE  HandlersOK' /\ LocalsOK'
      <3> DEFINE y == [x EXCEPT !.partner = c.id, !.cands = {}]
      <3>1. y \in Local /\ LocalAt("claim", y)
        BY <1>0, <2>0, <2>1 DEF Local, LocalAt
      <3>2. QED
        BY <2>1, <3>1, GotoType DEF PC
    <2>2. ASSUME NEW c \in x.cands, NEW l \in {"enqueue", "check"}, Goto(r, l),
                 pc[r] = "check", req' = [req EXCEPT ![r].cands = @ \ {c}]
          PROVE  HandlersOK' /\ LocalsOK'
      <3> DEFINE y == [x EXCEPT !.cands = @ \ {c}]
      <3>1. y \in Local /\ LocalAt(l, y)
        BY <1>0, <2>0, <2>2 DEF Local, LocalAt
      <3>2. QED
        BY <2>2, <3>1, GotoType DEF PC, Awaiting
    <2>3. HandlersOK' /\ LocalsOK'
      BY <1>4, <2>1, <2>2 DEF JoinCheckBlock
    <2>4. QED
      BY <1>4, <2>3, SameServer, SameTables DEF JoinCheckBlock, bounds
  <1>5. CASE JoinEnqueue(r)
    <2>1. x.user \in Users /\ x.wish \in Wish /\ LocalAt("upsert", x)
      BY <1>0, <1>5 DEF JoinEnqueue, LocalAt, Local
    <2>2. HandlersOK' /\ LocalsOK'
      BY <1>5, <2>1, MoveType DEF JoinEnqueue, PC, Awaiting
    <2>3. ServerOK'
      BY <1>5, <2>1, EnqueueType DEF JoinEnqueue
    <2>4. QED
      BY <1>5, <2>2, <2>3, SameTables DEF JoinEnqueue, bounds
  <1>6. CASE JoinUpsert(r)
    <2>1. x.user \in Users
      BY <1>0, <1>6 DEF JoinUpsert, LocalAt
    <2>2. TablesOK'
      BY <1>6, <2>1 DEF JoinUpsert, TablesOK
    <2>3. QED
      BY <1>6, <2>2, FinishType, SameServer DEF JoinUpsert, bounds
  <1>7. CASE JoinClaim(r)
    <2> DEFINE w == IF x.partner \in DOMAIN waiting THEN waiting[x.partner].wish
                                                   ELSE DefaultWish
               y == [x EXCEPT !.old = w]
    <2>1. w \in Wish
      BY DEF ServerOK, Entry, DefaultWish, Wish
    <2>2. y \in Local /\ LocalAt("create", y)
      BY <1>0, <1>7, <2>1 DEF JoinClaim, Local, LocalAt
    <2>3. HandlersOK' /\ LocalsOK'
      BY <1>7, <2>2, GotoType DEF JoinClaim, PC
    <2>4. ServerOK'
      BY <1>7, DropType DEF JoinClaim, ServerOK
    <2>5. QED
      BY <1>7, <2>3, <2>4, SameTables DEF JoinClaim, bounds
  <1>8. CASE JoinCreate(r)
    <2>1. x.user \in Users /\ x.partner \in Users /\ LocalAt("announce", x)
      BY <1>0, <1>8 DEF JoinCreate, LocalAt
    <2>2. HandlersOK' /\ LocalsOK'
      BY <1>8, <2>1, MoveType DEF JoinCreate, PC
    <2>3. [status |-> "active", users |-> {x.user, x.partner},
           reason |-> "none"] \in Session
      BY <2>1 DEF Session
    <2>4. TablesOK'
      BY <1>8, <2>3 DEF JoinCreate, TablesOK
    <2>5. QED
      BY <1>8, <2>2, <2>4, SameServer DEF JoinCreate, bounds
  <1>9. CASE JoinAnnounce(r)
    <2>1. informed' \in [Users -> SUBSET Reqs]
      BY <1>9, InformType DEF JoinAnnounce
    <2>2. QED
      BY <1>9, <2>1, FinishType, SameServer, SameTables
      DEF JoinAnnounce, bounds
  <1>10. CASE Dequeue(r)
    <2>2. ASSUME pc[r] = "d_dequeue", Goto(r, "lookup"), UNCHANGED req
          PROVE  HandlersOK' /\ LocalsOK'
      <3>1. LocalAt("lookup", x)
        BY <1>0, <2>2 DEF LocalAt
      <3>2. QED
        BY <2>2, <3>1, MoveType DEF PC, Awaiting
    <2>3. TablesOK'
      BY <1>10 DEF Dequeue, TablesOK
    <2>4. QED
      BY <1>10, <2>2, <2>3, FinishType, SameServer DEF Dequeue, bounds
  <1>11. CASE WriteReport(r)
    <2>1. x.user \in Users /\ x.sess \in Reqs /\ LocalAt("end_read", x)
      BY <1>0, <1>11 DEF WriteReport, LocalAt
    <2>2. HandlersOK' /\ LocalsOK'
      BY <1>11, <2>1, MoveType DEF WriteReport, PC, Awaiting
    <2>3. TablesOK'
      BY <1>11, <2>1 DEF WriteReport, TablesOK
    <2>4. QED
      BY <1>11, <2>2, <2>3, SameServer DEF WriteReport, bounds
  <1>12. CASE EndRead(r)
    <2>2. ASSUME Goto(r, "end_write"), UNCHANGED req
          PROVE  HandlersOK' /\ LocalsOK'
      <3>1. LocalAt("end_write", x)
        BY <1>0, <1>12 DEF EndRead, LocalAt
      <3>2. QED
        BY <2>2, <3>1, MoveType DEF PC, Awaiting
    <2>3. QED
      BY <1>12, <2>2, FinishType, SameServer, SameTables
      DEF EndRead, bounds
  <1>13. CASE EndWrite(r)
    <2>1. x.sess \in Reqs
          /\ x.reason \in {"left", "disconnect", "reported"}
      BY <1>0, <1>13 DEF EndWrite, LocalAt, Local
    <2>2. TablesOK'
      BY <1>13, <2>1 DEF EndWrite, TablesOK, Session
    <2>3. QED
      BY <1>13, <2>2, FinishType, SameServer DEF EndWrite, bounds
  <1>14. CASE GraceExpires(r)
    <2>2. ASSUME Goto(r, "d_dequeue"), UNCHANGED req
          PROVE  HandlersOK' /\ LocalsOK'
      <3>1. LocalAt("d_dequeue", x)
        BY <1>0, <1>14 DEF GraceExpires, LocalAt
      <3>2. QED
        BY <2>2, <3>1, MoveType DEF PC, Awaiting
    <2>3. ServerOK'
      BY <1>14, DropType DEF GraceExpires, ServerOK
    <2>4. HandlersOK' /\ LocalsOK'
      BY <1>14, <2>2, FinishType DEF GraceExpires
    <2>5. QED
      BY <1>14, <2>3, <2>4, SameTables DEF GraceExpires, bounds
  <1>15. CASE LookupSession(r)
    <2>2. ASSUME NEW s \in Reqs, Goto(r, "end_read"),
                 req' = [req EXCEPT ![r] = [@ EXCEPT !.sess = s,
                                                    !.reason = "disconnect"]]
          PROVE  HandlersOK' /\ LocalsOK'
      <3> DEFINE y == [x EXCEPT !.sess = s, !.reason = "disconnect"]
      <3>1. y \in Local /\ LocalAt("end_read", y)
        BY <1>0, <1>15 DEF LookupSession, Local, LocalAt
      <3>2. QED
        BY <2>2, <3>1, GotoType DEF PC, Awaiting
    <2>3. QED
      BY <1>15, <2>2, FinishType, SameServer, SameTables
      DEF LookupSession, ActiveOf, bounds
  <1>16. QED
    BY <1>1, <1>2, <1>3, <1>4, <1>5, <1>6, <1>7, <1>8, <1>9, <1>10, <1>11,
       <1>12, <1>13, <1>14, <1>15 DEF Step

(* A client event, a connection or a disconnection. *)
LEMMA ArrivalType ==
    ASSUME TypeInv, NEW r \in Reqs, Arrival(r)
    PROVE  TypeInv'
  <1> USE DEF TypeInv, TypeOK
  <1>0. req[r] \in Local /\ LocalAt(pc[r], req[r])
    BY DEF HandlersOK, LocalsOK
  <1>1. ASSUME NEW u \in Users, NEW pref \in Prefs, NEW mode \in Modes,
               JoinQueue(r, u, pref, mode)
        PROVE  TypeInv'
    <2> DEFINE w == [gender |-> Gender[u], pref |-> pref, mode |-> mode]
               y == [req[r] EXCEPT !.user = u, !.wish = w]
    <2>1. w \in Wish
      BY DEF Wish
    <2>2. y \in Local /\ LocalAt("session", y)
      BY <1>0, <2>1 DEF Local, LocalAt
    <2>3. HandlersOK' /\ LocalsOK'
      BY <1>1, <2>2, GotoType DEF JoinQueue, Arrive, PC, Awaiting
    <2>4. QED
      BY <1>1, <2>3, SameServer, SameTables DEF JoinQueue, bounds
  <1>2. ASSUME NEW u \in Users, LeaveQueue(r, u)
        PROVE  TypeInv'
    <2> DEFINE y == [req[r] EXCEPT !.user = u]
    <2>1. y \in Local /\ LocalAt("dequeue", y)
      BY <1>0 DEF Local, LocalAt
    <2>2. HandlersOK' /\ LocalsOK'
      BY <1>2, <2>1, GotoType DEF LeaveQueue, Arrive, PC, Awaiting
    <2>3. ServerOK'
      BY <1>2, DropType DEF LeaveQueue, ServerOK
    <2>4. QED
      BY <1>2, <2>2, <2>3, SameTables DEF LeaveQueue, bounds
  <1>3. ASSUME NEW u \in Users, NEW s \in Reqs, LeaveSession(r, u, s)
        PROVE  TypeInv'
    <2> DEFINE y == [req[r] EXCEPT !.user = u, !.sess = s, !.reason = "left"]
    <2>1. y \in Local /\ LocalAt("end_read", y)
      BY <1>0 DEF Local, LocalAt
    <2>2. HandlersOK' /\ LocalsOK'
      BY <1>3, <2>1, GotoType DEF LeaveSession, Arrive, PC, Awaiting
    <2>3. QED
      BY <1>3, <2>2, SameServer, SameTables DEF LeaveSession, bounds
  <1>4. ASSUME NEW u \in Users, NEW s \in Reqs, ReportMatch(r, u, s)
        PROVE  TypeInv'
    <2> DEFINE y == [req[r] EXCEPT !.user = u, !.sess = s,
                                   !.reason = "reported"]
    <2>1. y \in Local /\ LocalAt("report", y)
      BY <1>0 DEF Local, LocalAt
    <2>2. HandlersOK' /\ LocalsOK'
      BY <1>4, <2>1, GotoType DEF ReportMatch, Arrive, PC, Awaiting
    <2>3. QED
      BY <1>4, <2>2, SameServer, SameTables DEF ReportMatch, bounds
  <1>5. ASSUME NEW u \in Users, Disconnect(r, u) \/ Connect(r, u)
        PROVE  TypeInv'
    <2> DEFINE y == [req[r] EXCEPT !.user = u]
    <2>1. y \in Local /\ LocalAt("grace", y) /\ LocalAt("sync", y)
      BY <1>0 DEF Local, LocalAt
    <2>2. HandlersOK' /\ LocalsOK'
      BY <1>5, <2>1, GotoType
      DEF Disconnect, Connect, Arrive, PC, Awaiting
    <2>3. ServerOK'
      BY <1>5 DEF Disconnect, Connect, ServerOK
    <2>4. informed' \in [Users -> SUBSET Reqs]
      BY <1>5 DEF Disconnect, Connect
    <2>5. QED
      BY <1>5, <2>2, <2>3, <2>4, SameTables DEF Disconnect, Connect, bounds
  <1>6. QED
    BY <1>1, <1>2, <1>3, <1>4, <1>5 DEF Arrival

(* A database call fails: in the pairing, elsewhere in a handler, or in    *)
(* the sweeper, where it takes the process down.                           *)
LEMMA FailureType ==
    ASSUME TypeInv
    PROVE  /\ \A r \in Reqs : JoinRollback(r) => TypeInv'
           /\ \A r \in Reqs : QueryFails(r) => TypeInv'
           /\ ReclaimFails \/ Crash => TypeInv'
  <1> USE DEF TypeInv, TypeOK
  <1>1. ASSUME NEW r \in Reqs, JoinRollback(r)
        PROVE  TypeInv'
    <2>1. req[r].partner \in Users /\ req[r].old \in Wish
      BY <1>1 DEF JoinRollback, HandlersOK, LocalsOK, LocalAt, Local
    <2>2. ServerOK'
      BY <1>1, <2>1, EnqueueType DEF JoinRollback
    <2>3. fails' \in Nat
      BY <1>1 DEF JoinRollback
    <2>4. QED
      BY <1>1, <2>2, <2>3, FinishType, SameTables DEF JoinRollback
  <1>2. ASSUME NEW r \in Reqs, QueryFails(r)
        PROVE  TypeInv'
    <2>1. fails' \in Nat
      BY <1>2 DEF QueryFails
    <2>2. QED
      BY <1>2, <2>1, FinishType, SameServer, SameTables DEF QueryFails
  <1>3. ASSUME ReclaimFails \/ Crash
        PROVE  TypeInv'
    <2>1. fails' \in Nat /\ crashes' \in Nat
      BY <1>3 DEF ReclaimFails, Crash
    <2>2. QED
      BY <1>3, <2>1, FallType DEF ReclaimFails, Crash
  <1>4. QED
    BY <1>1, <1>2, <1>3

(* The pool between requests, the block list and the restart. *)
LEMMA BackgroundType ==
    ASSUME TypeInv
    PROVE  /\ \A u \in Users : Heartbeat(u) \/ Lapse(u) \/ ReclaimRow(u) => TypeInv'
           /\ SweepStale \/ Recover => TypeInv'
           /\ \A p \in MayBlock :
                 Block(p[1], p[2]) \/ Unblock(p[1], p[2]) => TypeInv'
  <1> USE DEF TypeInv, TypeOK
  <1>1. ASSUME NEW u \in Users, Heartbeat(u) \/ Lapse(u)
        PROVE  TypeInv'
    <2>0. u \in DOMAIN waiting /\ waiting[u] \in Entry
      BY <1>1 DEF Heartbeat, Lapse, ServerOK
    <2>a. \A b \in BOOLEAN : [waiting[u] EXCEPT !.fresh = b] \in Entry
      BY <2>0 DEF Entry
    <2>1. ServerOK'
      BY <1>1, <2>0, <2>a DEF Heartbeat, Lapse, ServerOK
    <2>2. QED
      BY <1>1, <2>1, SameHandlers, SameTables DEF Heartbeat, Lapse, bounds
  <1>2. ASSUME NEW u \in Users, ReclaimRow(u)
        PROVE  TypeInv'
    <2>1. ServerOK' /\ TablesOK'
      BY <1>2 DEF ReclaimRow, ServerOK, TablesOK
    <2>2. QED
      BY <1>2, <2>1, SameHandlers DEF ReclaimRow, bounds
  <1>3. ASSUME SweepStale
        PROVE  TypeInv'
    <2>1. ServerOK'
      BY <1>3, DropType DEF SweepStale, ServerOK
    <2>2. QED
      BY <1>3, <2>1, SameHandlers, SameTables DEF SweepStale, bounds
  <1>4. ASSUME Recover
        PROVE  TypeInv'
    <2>1. ServerOK'
      BY <1>4 DEF Recover, RecoverQueue, RecoverSessions, ServerOK
    <2>2. sess' \in [Reqs -> Session]
      <3>1. CASE RecoverQueue
        BY <3>1 DEF RecoverQueue, TablesOK
      <3>2. CASE RecoverSessions
        <4>1. \A s \in Reqs : [status |-> "expired", users |-> sess[s].users,
                                reason |-> "expired"] \in Session
          BY DEF TablesOK, Session
        <4>2. QED
          BY <3>2, <4>1 DEF RecoverSessions, TablesOK
      <3>3. QED
        BY <1>4, <3>1, <3>2 DEF Recover
    <2>3. TablesOK'
      BY <1>4, <2>2 DEF Recover, RecoverQueue, RecoverSessions, TablesOK
    <2>4. QED
      BY <1>4, <2>1, <2>3, SameHandlers
      DEF Recover, RecoverQueue, RecoverSessions, bounds
  <1>5. ASSUME NEW p \in MayBlock, Block(p[1], p[2]) \/ Unblock(p[1], p[2])
        PROVE  TypeInv'
    <2>1. TablesOK'
      BY <1>5 DEF Block, Unblock, TablesOK
    <2>2. QED
      BY <1>5, <2>1, SameServer, SameHandlers DEF Block, Unblock, bounds
  <1>6. QED
    BY <1>1, <1>2, <1>3, <1>4, <1>5

LEMMA NextType == TypeInv /\ [Next]_vars => TypeInv'
  <1> SUFFICES ASSUME TypeInv, [Next]_vars
               PROVE  TypeInv'
    OBVIOUS
  <1>1. CASE UNCHANGED vars
    BY <1>1, SameServer, SameTables, SameHandlers
    DEF vars, TypeInv, TypeOK, bounds
  <1>2. CASE Next
    BY <1>2, StepType, ArrivalType, FailureType, BackgroundType DEF Next
  <1>3. QED
    BY <1>1, <1>2

(* Every variable has its type in every reachable state, and every request *)
(* has the locals its next step reads: matchingService never acts on an    *)
(* undefined partner or session.                                           *)
THEOREM TypeCorrect == Spec => []TypeInv
  BY InitType, NextType, PTL DEF Spec

(* The type invariant that the runs check.                                 *)
THEOREM TypeSafe == Spec => []TypeOK
  BY TypeCorrect, PTL DEF TypeInv

-----------------------------------------------------------------------------
(***************************************************************************)
(* The tables.  Of all steps only JoinCreate, EndWrite and RecoverSessions *)
(* change a session or the history; what they rely on is TableInv:         *)
(*   - the session a request would create does not exist before its        *)
(*     createSession commits;                                              *)
(*   - a session has a history row exactly when a handler ended it;        *)
(*   - a handler between endSession's read and write holds a session that  *)
(*     is active or was ended meanwhile, never one that a restart expired; *)
(*   - a process that is not up runs no handler;                           *)
(*   - a handler lost in a crash left no session active.                   *)
(***************************************************************************)
Past == {"announce", "done", "lost"}

FreshOK == \A s \in Reqs : pc[s] \notin Past => sess[s].status = "none"

HistoryOK == \A s \in Reqs : history[s] > 0 <=> sess[s].status = "ended"

EndingOK ==
    \A r \in Reqs :
        pc[r] = "end_write" => sess[req[r].sess].status \in {"active", "ended"}

BootOK == phase # "up" => \A r \in Reqs : pc[r] \in {"idle", "lost"}

TableInv ==
    /\ FreshOK
    /\ HistoryOK
    /\ EndingOK
    /\ BootOK
    /\ SessionsOfThisBoot

(* A handler moves from pc[r] to l and leaves every session alone. *)
Moves(r, l) ==
    /\ Goto(r, l)
    /\ \A q \in Reqs \ {r} : req'[q] = req[q]
    /\ l \notin {"idle", "lost", "announce"}
    /\ pc[r] \in Past => pc[r] = "announce" /\ l = "done"
    /\ l = "end_write" => /\ req'[r] = req[r]
                          /\ sess[req[r].sess].status = "active"
    /\ phase = "up"
    /\ UNCHANGED <<phase, sess, history>>

LEMMA MovesTables ==
    ASSUME TypeInv, TableInv, NEW r \in Reqs, NEW l, Moves(r, l)
    PROVE  TableInv'
  <1> USE DEF TypeInv, TypeOK, HandlersOK, TablesOK, TableInv, Moves, Goto
  <1>1. FreshOK'
    BY DEF FreshOK, Past
  <1>2. HistoryOK'
    BY DEF HistoryOK
  <1>3. EndingOK'
    BY DEF EndingOK
  <1>4. BootOK' /\ SessionsOfThisBoot'
    BY DEF BootOK, SessionsOfThisBoot
  <1>5. QED
    BY <1>1, <1>2, <1>3, <1>4

(* The same for steps that are not a handler's. *)
LEMMA StillTables ==
    ASSUME TypeInv, TableInv, UNCHANGED <<phase, pc, req, sess, history>>
    PROVE  TableInv'
  BY DEF TableInv, FreshOK, HistoryOK, EndingOK, BootOK, SessionsOfThisBoot

LEMMA FinishMoves ==
    ASSUME TypeInv, NEW r \in Reqs, Finish(r),
           pc[r] \notin {"done", "lost"}, phase = "up",
           UNCHANGED <<phase, sess, history>>
    PROVE  Moves(r, "done")
  BY DEF TypeInv, TypeOK, HandlersOK, Finish, Moves, Past

(* Every step of a handler except the two that write a session. *)
LEMMA StepMoves ==
    ASSUME TypeInv, TableInv, NEW r \in Reqs, Step(r),
           ~JoinCreate(r), ~EndWrite(r)
    PROVE  \E l \in PC : Moves(r, l) /\ (l = "enqueue" => JoinCheckBlock(r))
  <1> USE DEF TypeInv, TypeOK, HandlersOK, PC, Awaiting
  <1>0. pc[r] \notin {"idle", "lost"} => phase = "up"
    BY DEF TableInv, BootOK
  <1>1. CASE ReadSession(r)
    BY <1>0, <1>1 DEF ReadSession, Moves, Finish, Past, Goto, server, tables
  <1>2. CASE RestartSession(r) \/ JoinUpsert(r) \/ JoinAnnounce(r)
    BY <1>0, <1>2
    DEF RestartSession, JoinUpsert, JoinAnnounce, Moves, Finish, Past,
        server, tables
  <1>3. CASE JoinSnapshot(r)
    BY <1>0, <1>3 DEF JoinSnapshot, Moves, Past, tables
  <1>4. CASE JoinCheckBlock(r)
    BY <1>0, <1>4 DEF JoinCheckBlock, Moves, Past, server, tables
  <1>5. CASE JoinEnqueue(r) \/ JoinClaim(r) \/ WriteReport(r)
    BY <1>0, <1>5
    DEF JoinEnqueue, JoinClaim, WriteReport, Moves, Past, server, tables
  <1>6. CASE Dequeue(r) \/ GraceExpires(r)
    BY <1>0, <1>6
    DEF Dequeue, GraceExpires, Moves, Finish, Past, server, tables
  <1>7. CASE EndRead(r)
    BY <1>0, <1>7 DEF EndRead, Moves, Finish, Past, server, tables
  <1>8. CASE LookupSession(r)
    <2>1. Moves(r, "end_read") \/ Moves(r, "done")
      BY <1>0, <1>8 DEF LookupSession, Moves, Finish, Past, server, tables
    <2>2. QED
      BY <2>1
  <1>9. QED
    BY <1>1, <1>2, <1>3, <1>4, <1>5, <1>6, <1>7, <1>8 DEF Step

LEMMA ArrivalMoves ==
    ASSUME TypeInv, NEW r \in Reqs, Arrival(r)
    PROVE  \E l \in PC : Moves(r, l) /\ l # "enqueue"
  <1> USE DEF TypeInv, TypeOK, HandlersOK, PC, Awaiting
  <1>1. ASSUME NEW u \in Users, NEW pref \in Prefs, NEW mode \in Modes,
               JoinQueue(r, u, pref, mode)
        PROVE  Moves(r, "session")
    BY <1>1 DEF JoinQueue, Arrive, Moves, Past, server, tables
  <1>2. ASSUME NEW u \in Users, LeaveQueue(r, u)
        PROVE  Moves(r, "dequeue")
    BY <1>2 DEF LeaveQueue, Arrive, Moves, Past, tables
  <1>3. ASSUME NEW u \in Users, NEW s \in Reqs, LeaveSession(r, u, s)
        PROVE  Moves(r, "end_read")
    BY <1>3 DEF LeaveSession, Arrive, Moves, Past, server, tables
  <1>4. ASSUME NEW u \in Users, NEW s \in Reqs, ReportMatch(r, u, s)
        PROVE  Moves(r, "report")
    BY <1>4 DEF ReportMatch, Arrive, Moves, Past, server, tables
  <1>5. ASSUME NEW u \in Users, Disconnect(r, u)
        PROVE  Moves(r, "grace")
    BY <1>5 DEF Disconnect, Arrive, Moves, Past, tables
  <1>6. ASSUME NEW u \in Users, Connect(r, u)
        PROVE  Moves(r, "sync")
    BY <1>6 DEF Connect, Moves, Past, tables
  <1>7. QED
    BY <1>1, <1>2, <1>3, <1>4, <1>5, <1>6 DEF Arrival

LEMMA CreateTables ==
    ASSUME TypeInv, TableInv, NEW r \in Reqs, JoinCreate(r)
    PROVE  TableInv'
  <1> USE DEF TypeInv, TypeOK, HandlersOK, TablesOK, TableInv, JoinCreate,
              Goto, server
  <1>1. phase = "up" /\ sess[r].status = "none" /\ ~(history[r] > 0)
    BY DEF BootOK, FreshOK, Past, HistoryOK
  <1>2. FreshOK'
    BY <1>1 DEF FreshOK, Past
  <1>3. HistoryOK'
    BY <1>1 DEF HistoryOK
  <1>4. EndingOK'
    BY <1>1 DEF EndingOK, LocalsOK, LocalAt
  <1>5. BootOK' /\ SessionsOfThisBoot'
    BY <1>1 DEF BootOK, SessionsOfThisBoot
  <1>6. QED
    BY <1>2, <1>3, <1>4, <1>5

(* What EndWrite does to the tables, with the chained update undone. *)
LEMMA EndWriteEffect ==
    ASSUME TypeInv, TableInv, NEW r \in Reqs, EndWrite(r)
    PROVE  /\ req[r].sess \in Reqs
           /\ \A s \in Reqs :
                /\ s # req[r].sess => sess'[s] = sess[s]
                /\ s = req[r].sess => /\ sess[s].status \in {"active", "ended"}
                                      /\ sess'[s].status = "ended"
                                      /\ sess'[s].users = sess[s].users
                                      /\ history'[s] = history[s] + 1
                /\ s # req[r].sess => history'[s] = history[s]
  <1> USE DEF TypeInv, TypeOK, TablesOK
  <1>1. req[r].sess \in Reqs
    BY DEF EndWrite, LocalsOK, LocalAt
  <1>2. sess[req[r].sess].status \in {"active", "ended"}
    BY DEF TableInv, EndingOK, EndWrite
  <1>3. QED
    BY <1>1, <1>2 DEF EndWrite, Session

LEMMA EndWriteTables ==
    ASSUME TypeInv, TableInv, NEW r \in Reqs, EndWrite(r)
    PROVE  TableInv'
  <1> USE DEF TypeInv, TypeOK, HandlersOK, TablesOK, TableInv
  <1>1. /\ phase = "up" /\ phase' = "up"
        /\ pc[r] = "end_write"
        /\ pc' = [pc EXCEPT ![r] = "done"]
        /\ \A q \in Reqs \ {r} : req'[q] = req[q]
    BY DEF EndWrite, BootOK, Finish, Goto, server
  <1>2. FreshOK'
    BY <1>1, EndWriteEffect DEF FreshOK, Past
  <1>3. HistoryOK'
    BY EndWriteEffect DEF HistoryOK
  <1>4. EndingOK'
    <2> SUFFICES ASSUME NEW q \in Reqs, pc'[q] = "end_write"
                 PROVE  sess'[req'[q].sess].status \in {"active", "ended"}
      BY DEF EndingOK
    <2>1. q # r /\ pc[q] = "end_write" /\ req'[q] = req[q]
      BY <1>1
    <2>2. req[q].sess \in Reqs /\ sess[req[q].sess].status \in {"active", "ended"}
      BY <2>1 DEF EndingOK, LocalsOK, LocalAt
    <2>3. QED
      BY <2>1, <2>2, EndWriteEffect
  <1>5. BootOK' /\ SessionsOfThisBoot'
    BY <1>1, EndWriteEffect DEF BootOK, SessionsOfThisBoot
  <1>6. QED
    BY <1>2, <1>3, <1>4, <1>5

LEMMA FallTables ==
    ASSUME TypeInv, TableInv, Fall
    PROVE  TableInv'
  <1> USE DEF TypeInv, TypeOK, HandlersOK, TablesOK, TableInv, Fall, tables
  <1>1. FreshOK'
    BY DEF FreshOK, Past
  <1>2. HistoryOK' /\ EndingOK' /\ BootOK' /\ SessionsOfThisBoot'
    BY DEF HistoryOK, EndingOK, BootOK, SessionsOfThisBoot
  <1>3. QED
    BY <1>1, <1>2

LEMMA RecoverTables ==
    ASSUME TypeInv, TableInv, Recover
    PROVE  TableInv'
  <1> USE DEF TypeInv, TypeOK, HandlersOK, TablesOK, TableInv
  <1>1. /\ phase # "up"
        /\ \A r \in Reqs : pc[r] \in {"idle", "lost"}
    BY DEF Recover, RecoverQueue, RecoverSessions, BootOK
  <1>2. CASE RecoverQueue
    BY <1>1, <1>2
    DEF RecoverQueue, FreshOK, HistoryOK, EndingOK, BootOK, SessionsOfThisBoot
  <1>3. CASE RecoverSessions
    <2>1. \A s \in Reqs :
             sess'[s].status = IF sess[s].status = "active" THEN "expired"
                                                           ELSE sess[s].status
      BY <1>3 DEF RecoverSessions
    <2>2. FreshOK' /\ HistoryOK'
      BY <1>3, <2>1 DEF RecoverSessions, FreshOK, HistoryOK
    <2>3. EndingOK' /\ BootOK' /\ SessionsOfThisBoot'
      BY <1>1, <1>3, <2>1
      DEF RecoverSessions, EndingOK, BootOK, SessionsOfThisBoot, Session
    <2>4. QED
      BY <2>2, <2>3
  <1>4. QED
    BY <1>2, <1>3 DEF Recover

(* A step either leaves all sessions and the history alone or is one of    *)
(* the three that do not.                                                  *)
LEMMA Frame ==
    ASSUME TypeInv, TableInv, Next
    PROVE  \/ UNCHANGED <<sess, history>>
           \/ \E r \in Reqs : JoinCreate(r) \/ EndWrite(r)
           \/ RecoverSessions
  <1>1. \A r \in Reqs : Step(r) => \/ UNCHANGED <<sess, history>>
                                   \/ JoinCreate(r) \/ EndWrite(r)
    BY StepMoves DEF Moves
  <1>2. \A r \in Reqs : Arrival(r) => UNCHANGED <<sess, history>>
    BY ArrivalMoves DEF Moves
  <1>3. \A r \in Reqs : JoinRollback(r) \/ QueryFails(r)
                           => UNCHANGED <<sess, history>>
    BY DEF JoinRollback, QueryFails, tables
  <1>4. \A u \in Users : Heartbeat(u) \/ Lapse(u) \/ ReclaimRow(u)
                           => UNCHANGED <<sess, history>>
    BY DEF Heartbeat, Lapse, ReclaimRow, tables
  <1>5. SweepStale \/ Crash \/ ReclaimFails \/ RecoverQueue
           => UNCHANGED <<sess, history>>
    BY DEF SweepStale, Crash, ReclaimFails, Fall, RecoverQueue, tables
  <1>6. \A u, v : Block(u, v) \/ Unblock(u, v) => UNCHANGED <<sess, history>>
    BY DEF Block, Unblock
  <1>7. QED
    BY <1>1, <1>2, <1>3, <1>4, <1>5, <1>6 DEF Next, Recover

LEMMA TableStep == TypeInv /\ TableInv /\ [Next]_vars => TableInv'
  <1> SUFFICES ASSUME TypeInv, TableInv, [Next]_vars
               PROVE  TableInv'
    OBVIOUS
  <1>1. CASE UNCHANGED vars
    BY <1>1, StillTables DEF vars, server, tables
  <1>2. ASSUME NEW r \in Reqs, Step(r)
        PROVE  TableInv'
    <2>1. CASE JoinCreate(r)
      BY <2>1, CreateTables
    <2>2. CASE EndWrite(r)
      BY <2>2, EndWriteTables
    <2>3. CASE ~JoinCreate(r) /\ ~EndWrite(r)
      BY <1>2, <2>3, StepMoves, MovesTables
    <2>4. QED
      BY <2>1, <2>2, <2>3
  <1>3. ASSUME NEW r \in Reqs, Arrival(r)
        PROVE  TableInv'
    BY <1>3, ArrivalMoves, MovesTables
  <1>4. ASSUME NEW r \in Reqs, JoinRollback(r) \/ QueryFails(r)
        PROVE  TableInv'
    <2>1. pc[r] \notin {"idle", "done", "lost"}
      BY <1>4 DEF JoinRollback, QueryFails, Awaiting
    <2>2. phase = "up"
      BY <2>1 DEF TableInv, BootOK
    <2>3. Moves(r, "done")
      BY <1>4, <2>1, <2>2, FinishMoves
      DEF JoinRollback, QueryFails, server, tables
    <2>4. QED
      BY <2>3, MovesTables
  <1>5. ASSUME NEW u \in Users, Heartbeat(u) \/ Lapse(u) \/ ReclaimRow(u)
        PROVE  TableInv'
    BY <1>5, StillTables DEF Heartbeat, Lapse, ReclaimRow, tables
  <1>6. CASE SweepStale
    BY <1>6, StillTables DEF SweepStale, tables
  <1>7. ASSUME NEW p \in MayBlock, Block(p[1], p[2]) \/ Unblock(p[1], p[2])
        PROVE  TableInv'
    BY <1>7, StillTables DEF Block, Unblock, server
  <1>8. CASE Crash \/ ReclaimFails
    BY <1>8, FallTables DEF Crash, ReclaimFails
  <1>9. CASE Recover
    BY <1>9, RecoverTables
  <1>10. QED
    BY <1>1, <1>2, <1>3, <1>4, <1>5, <1>6, <1>7, <1>8, <1>9 DEF Next

LEMMA TableInit == Init => TableInv
  BY DEF Init, TableInv, FreshOK, HistoryOK, EndingOK, BootOK,
     SessionsOfThisBoot, NoSession, Past

THEOREM TablesCorrect == Spec => [](TypeInv /\ TableInv)
  BY InitType, NextType, TableInit, TableStep, PTL DEF Spec

(* A server that listens has no active session of an earlier life of the   *)
(* process, wherever a crash fell, recover() included.                     *)
THEOREM NoOrphanSessions == Spec => []SessionsOfThisBoot
  BY TablesCorrect, PTL DEF TableInv

-----------------------------------------------------------------------------
(* The refinement: JoinCreate opens a session, the first EndWrite of a     *)
(* session ends it and every later one is a stutter, RecoverSessions       *)
(* expires all; the other steps stutter.                                   *)

LEMMA LifecycleInit == Init => Lifecycle!Init
  BY DEF Init, Lifecycle!Init, NoSession

LEMMA LifecycleStep ==
    TypeInv /\ TableInv /\ [Next]_vars
        => [Lifecycle!Next]_(Lifecycle!lifecycle)
  <1> SUFFICES ASSUME TypeInv, TableInv, [Next]_vars
               PROVE  Lifecycle!Next \/ UNCHANGED Lifecycle!lifecycle
    OBVIOUS
  <1> USE DEF TypeInv, TypeOK, TablesOK
  <1>1. CASE UNCHANGED <<sess, history>>
    BY <1>1 DEF Lifecycle!lifecycle
  <1>2. ASSUME NEW r \in Reqs, JoinCreate(r)
        PROVE  Lifecycle!Next
    <2>1. PICK u \in Users, v \in Users :
             u = req[r].user /\ v = req[r].partner /\ u # v
      BY <1>2 DEF JoinCreate, LocalsOK, LocalAt
    <2>2. sess[r].status = "none"
      BY <1>2 DEF TableInv, FreshOK, JoinCreate, Past
    <2>3. history' = history
      BY <1>2 DEF JoinCreate
    <2>4. /\ [s \in Reqs |-> sess'[s].status]
                = [[s \in Reqs |-> sess[s].status] EXCEPT ![r] = "active"]
          /\ [s \in Reqs |-> sess'[s].users]
                = [[s \in Reqs |-> sess[s].users] EXCEPT ![r] = {u, v}]
      BY <1>2, <2>1 DEF JoinCreate
    <2>5. Lifecycle!Open(r, u, v)
      BY <2>1, <2>2, <2>3, <2>4 DEF Lifecycle!Open
    <2>6. QED
      BY <2>5 DEF Lifecycle!Next
  <1>3. ASSUME NEW r \in Reqs, EndWrite(r)
        PROVE  Lifecycle!Next \/ UNCHANGED Lifecycle!lifecycle
    <2> PICK s \in Reqs : s = req[r].sess
      BY <1>3, EndWriteEffect
    <2>1. sess[s].status \in {"active", "ended"}
      BY <1>3, EndWriteEffect
    <2>2. [x \in Reqs |-> sess'[x].status]
             = [[x \in Reqs |-> sess[x].status] EXCEPT ![s] = "ended"]
      BY <1>3, EndWriteEffect
    <2>3. [x \in Reqs |-> sess'[x].users] = [x \in Reqs |-> sess[x].users]
      BY <1>3, EndWriteEffect
    <2>4. {x \in Reqs : history'[x] > 0} = {x \in Reqs : history[x] > 0} \cup {s}
      BY <1>3, EndWriteEffect
    <2>5. CASE sess[s].status = "active"
      <3>1. Lifecycle!End(s)
        BY <2>2, <2>3, <2>4, <2>5 DEF Lifecycle!End
      <3>2. QED
        BY <3>1 DEF Lifecycle!Next
    <2>6. CASE sess[s].status = "ended"
      <3>1. history[s] > 0
        BY <2>6 DEF TableInv, HistoryOK
      <3>2. {x \in Reqs : history'[x] > 0} = {x \in Reqs : history[x] > 0}
        BY <2>4, <3>1
      <3>3. [x \in Reqs |-> sess'[x].status] = [x \in Reqs |-> sess[x].status]
        BY <2>2, <2>6
      <3>4. QED
        BY <2>3, <3>2, <3>3 DEF Lifecycle!lifecycle
    <2>7. QED
      BY <2>1, <2>5, <2>6
  <1>4. CASE RecoverSessions
    <2>1. Lifecycle!ExpireAll
      BY <1>4 DEF RecoverSessions, Lifecycle!ExpireAll
    <2>2. QED
      BY <2>1 DEF Lifecycle!Next
  <1>5. CASE UNCHANGED vars
    BY <1>1, <1>5 DEF vars, tables
  <1>6. QED
    BY <1>1, <1>2, <1>3, <1>4, <1>5, Frame

(* The session tables keep the promise of SessionLifecycle: a session      *)
(* opens once between two different users who never change, closes once,   *)
(* is never reopened, and has a history row exactly when a handler ended   *)
(* it, whatever joins, leaves, reports, disconnects, crashes and failed    *)
(* queries interleave.                                                     *)
THEOREM LifecycleCorrect == Spec => ImplementsLifecycle
  <1>1. Spec => [](TypeInv /\ TableInv)
    BY TablesCorrect
  <1>2. QED
    BY <1>1, LifecycleInit, LifecycleStep, PTL
    DEF Spec, ImplementsLifecycle, Lifecycle!Spec

-----------------------------------------------------------------------------
(***************************************************************************)
(* The pool.  NoStrandedPair is inductive with three more facts: entries   *)
(* are older than the clock, only possible blocks exist, and a join that   *)
(* is about to be enqueued after its candidates were refused is one of     *)
(* those that may be blocked.                                              *)
(***************************************************************************)
ClockOK == \A u \in DOMAIN waiting : waiting[u].at < clock

EnqueueOK == \A r \in Reqs : pc[r] = "enqueue" => MayBeBlocked(req[r].user)

PoolInv ==
    /\ blocks \subseteq MayBlock
    /\ ClockOK
    /\ EnqueueOK
    /\ NoStrandedPair

LEMMA PoolSame ==
    ASSUME TypeInv, ClockOK, NoStrandedPair, fails' >= fails,
           UNCHANGED <<waiting, clock>>
    PROVE  ClockOK' /\ NoStrandedPair'
  BY DEF TypeInv, TypeOK, ClockOK, NoStrandedPair

LEMMA PoolDrop ==
    ASSUME TypeInv, ClockOK, NoStrandedPair, fails' >= fails, NEW keys,
           waiting' = Drop(waiting, keys), UNCHANGED clock
    PROVE  ClockOK' /\ NoStrandedPair'
  BY DEF TypeInv, TypeOK, ClockOK, NoStrandedPair, Drop

(* A user enters the pool after a scan that found nobody, or blocked. *)
LEMMA PoolEnqueue ==
    ASSUME TypeInv, ClockOK, NoStrandedPair, UNCHANGED fails,
           NEW u \in Users, NEW wish \in Wish, Enqueue(u, wish),
           Candidates(u, wish) = {} \/ MayBeBlocked(u)
    PROVE  ClockOK' /\ NoStrandedPair'
  <1> USE DEF TypeInv, TypeOK, ServerOK
  <1>1. /\ DOMAIN waiting' = DOMAIN waiting \cup {u}
        /\ waiting'[u].wish = wish /\ waiting'[u].at = clock
        /\ \A v \in DOMAIN waiting \ {u} : waiting'[v] = waiting[v]
        /\ clock' = clock + 1
    BY DEF Enqueue, Put
  <1>2. \A v \in DOMAIN waiting : waiting[v].at \in Nat
    BY DEF Entry
  <1>3. ClockOK'
    BY <1>1, <1>2 DEF ClockOK
  <1>4. ASSUME Candidates(u, wish) = {}, NEW v \in DOMAIN waiting \ {u}
        PROVE  ~Compatible(waiting[v].wish, wish)
    <2>1. Compatible(wish, waiting[v].wish)
             => [id |-> v, at |-> waiting[v].at] \in Candidates(u, wish)
      BY DEF Candidates
    <2>2. QED
      BY <1>4, <2>1 DEF Compatible
  <1>5. NoStrandedPair'
    <2> SUFFICES ASSUME fails = 0,
                        NEW v \in DOMAIN waiting', NEW w \in DOMAIN waiting',
                        waiting'[v].at < waiting'[w].at,
                        Compatible(waiting'[v].wish, waiting'[w].wish)
                 PROVE  MayBeBlocked(w)
      BY DEF NoStrandedPair
    <2>1. CASE w = u
      <3>1. v \in DOMAIN waiting \ {u}
        BY <1>1, <2>1
      <3>2. Compatible(waiting[v].wish, wish)
        BY <1>1, <2>1, <3>1
      <3>3. QED
        BY <1>4, <2>1, <3>1, <3>2
    <2>2. CASE w # u
      <3>1. w \in DOMAIN waiting /\ waiting'[w] = waiting[w]
        BY <1>1, <2>2
      <3>2. waiting[w].at < clock
        BY <3>1 DEF ClockOK
      <3>3. v # u
        BY <1>1, <1>2, <3>1, <3>2
      <3>4. v \in DOMAIN waiting /\ waiting'[v] = waiting[v]
        BY <1>1, <3>3
      <3>5. QED
        BY <3>1, <3>4 DEF NoStrandedPair
    <2>3. QED
      BY <2>1, <2>2
  <1>6. QED
    BY <1>3, <1>5

(* A handler moves and does not end at "enqueue". *)
LEMMA EnqueueMoves ==
    ASSUME TypeInv, EnqueueOK, NEW r \in Reqs, NEW l, l # "enqueue",
           Goto(r, l), \A q \in Reqs \ {r} : req'[q] = req[q]
    PROVE  EnqueueOK'
  BY DEF TypeInv, TypeOK, HandlersOK, EnqueueOK, Goto

LEMMA EnqueueSame ==
    ASSUME EnqueueOK, UNCHANGED <<pc, req>>
    PROVE  EnqueueOK'
  BY DEF EnqueueOK

LEMMA StepPool ==
    ASSUME TypeInv, TableInv, PoolInv, NEW r \in Reqs, Step(r)
    PROVE  PoolInv'
  <1> USE DEF PoolInv
  <1>a. UNCHANGED <<fails, blocks>> /\ fails' >= fails
    <2>1. UNCHANGED <<fails, blocks>>
      BY DEF Step, ReadSession, RestartSession, JoinSnapshot,
         JoinCheckBlock, JoinEnqueue, JoinUpsert, JoinClaim, JoinCreate,
         JoinAnnounce, Dequeue, WriteReport, EndRead, EndWrite, GraceExpires,
         LookupSession, tables, bounds
    <2>2. QED
      BY <2>1 DEF TypeInv, TypeOK
  <1>b. req[r] \in Local /\ LocalAt(pc[r], req[r])
    BY DEF TypeInv, TypeOK, HandlersOK, LocalsOK
  <1>1. EnqueueOK'
    <2>1. CASE JoinCreate(r)
      BY <2>1, EnqueueMoves DEF JoinCreate
    <2>2. CASE EndWrite(r)
      BY <2>2, EnqueueMoves DEF EndWrite, Finish, TypeInv, TypeOK, HandlersOK
    <2>3. CASE JoinCheckBlock(r)
      <3>1. \A c : BlockedEitherWay(req[r].user, c) => MayBeBlocked(req[r].user)
        BY DEF BlockedEitherWay, MayBeBlocked
      <3>2. ASSUME NEW c \in req[r].cands, Goto(r, "claim"),
                   req' = [req EXCEPT ![r] = [@ EXCEPT !.partner = c.id,
                                                      !.cands = {}]]
            PROVE  EnqueueOK'
        BY <3>2, EnqueueMoves
      <3>3. ASSUME NEW c \in req[r].cands, NEW l \in PC, Goto(r, l),
                   BlockedEitherWay(req[r].user, c.id),
                   req' = [req EXCEPT ![r].cands = @ \ {c}]
            PROVE  EnqueueOK'
        <4>1. req'[r].user = req[r].user
          BY <1>b, <3>3 DEF Local, TypeInv, TypeOK, HandlersOK
        <4>2. QED
          BY <3>1, <3>3, <4>1 DEF EnqueueOK, Goto, TypeInv, TypeOK, HandlersOK
      <3>4. QED
        BY <2>3, <3>2, <3>3 DEF JoinCheckBlock, PC, Awaiting
    <2>4. CASE ~JoinCreate(r) /\ ~EndWrite(r) /\ ~JoinCheckBlock(r)
      BY <2>4, StepMoves, EnqueueMoves DEF Moves
    <2>5. QED
      BY <2>1, <2>2, <2>3, <2>4
  <1>2. ClockOK' /\ NoStrandedPair'
    <2>1. CASE JoinSnapshot(r)
      <3>1. req[r].user \in Users /\ req[r].wish \in Wish
        BY <1>b, <2>1 DEF JoinSnapshot, LocalAt, Local
      <3>2. \/ UNCHANGED <<waiting, clock>>
            \/ /\ Candidates(req[r].user, req[r].wish) = {}
               /\ Enqueue(req[r].user, req[r].wish)
        BY <2>1 DEF JoinSnapshot
      <3>3. QED
        BY <1>a, <3>1, <3>2, PoolSame, PoolEnqueue
    <2>2. CASE JoinEnqueue(r)
      <3>1. req[r].user \in Users /\ req[r].wish \in Wish
        BY <1>b, <2>2 DEF JoinEnqueue, LocalAt, Local
      <3>2. MayBeBlocked(req[r].user) /\ Enqueue(req[r].user, req[r].wish)
        BY <2>2 DEF JoinEnqueue, EnqueueOK
      <3>3. QED
        BY <1>a, <3>1, <3>2, PoolEnqueue
    <2>3. CASE JoinClaim(r)
      BY <1>a, <2>3, PoolDrop DEF JoinClaim
    <2>4. CASE GraceExpires(r)
      <3>1. \/ UNCHANGED <<waiting, clock>>
            \/ waiting' = Drop(waiting, {req[r].user}) /\ UNCHANGED clock
        BY <2>4 DEF GraceExpires
      <3>2. QED
        BY <1>a, <3>1, PoolSame, PoolDrop
    <2>5. CASE ~ (JoinSnapshot(r) \/ JoinEnqueue(r) \/ JoinClaim(r)
                     \/ GraceExpires(r))
      <3>1. UNCHANGED <<waiting, clock>>
        BY <2>5
        DEF Step, ReadSession, RestartSession, JoinCheckBlock, JoinUpsert,
            JoinCreate, JoinAnnounce, Dequeue, WriteReport, EndRead,
            EndWrite, LookupSession, server
      <3>2. QED
        BY <1>a, <3>1, PoolSame
    <2>6. QED
      BY <2>1, <2>2, <2>3, <2>4, <2>5
  <1>3. QED
    BY <1>a, <1>1, <1>2

LEMMA ArrivalPool ==
    ASSUME TypeInv, PoolInv, NEW r \in Reqs, Arrival(r)
    PROVE  PoolInv'
  <1> USE DEF PoolInv
  <1>a. UNCHANGED <<fails, blocks>> /\ fails' >= fails
    <2>1. UNCHANGED <<fails, blocks>>
      BY DEF Arrival, JoinQueue, LeaveQueue, LeaveSession, ReportMatch,
         Disconnect, Connect, tables, bounds
    <2>2. QED
      BY <2>1 DEF TypeInv, TypeOK
  <1>1. EnqueueOK'
    BY ArrivalMoves, EnqueueMoves DEF Moves
  <1>2. \/ UNCHANGED <<waiting, clock>>
        \/ \E u \in Users : waiting' = Drop(waiting, {u}) /\ UNCHANGED clock
    BY DEF Arrival, JoinQueue, LeaveQueue, LeaveSession, ReportMatch,
       Disconnect, Connect, server
  <1>3. QED
    BY <1>a, <1>1, <1>2, PoolSame, PoolDrop

LEMMA PoolStep == TypeInv /\ TableInv /\ PoolInv /\ [Next]_vars => PoolInv'
  <1> SUFFICES ASSUME TypeInv, TableInv, PoolInv, [Next]_vars
               PROVE  PoolInv'
    OBVIOUS
  <1> USE DEF PoolInv
  <1>a. fails \in Nat /\ clock \in Nat
    BY DEF TypeInv, TypeOK, ServerOK
  <1>1. CASE UNCHANGED vars
    BY <1>1, <1>a, PoolSame, EnqueueSame DEF vars, server, tables, bounds
  <1>2. ASSUME NEW r \in Reqs, JoinRollback(r) \/ QueryFails(r)
        PROVE  PoolInv'
    <2>1. blocks' = blocks /\ fails' = fails + 1
      BY <1>2 DEF JoinRollback, QueryFails, tables
    <2>2. EnqueueOK'
      BY <1>2, EnqueueMoves
      DEF JoinRollback, QueryFails, Finish, TypeInv, TypeOK, HandlersOK
    <2>3. NoStrandedPair'
      BY <1>a, <2>1 DEF NoStrandedPair
    <2>4. ClockOK'
      <3>1. CASE QueryFails(r)
        BY <3>1 DEF QueryFails, server, ClockOK
      <3>2. CASE JoinRollback(r)
        BY <1>a, <3>2
        DEF JoinRollback, Enqueue, Put, ClockOK, TypeInv, TypeOK, ServerOK,
            Entry
      <3>3. QED
        BY <1>2, <3>1, <3>2
    <2>5. QED
      BY <2>1, <2>2, <2>3, <2>4
  <1>3. ASSUME NEW u \in Users, Heartbeat(u) \/ Lapse(u)
        PROVE  PoolInv'
    <2>1. /\ DOMAIN waiting' = DOMAIN waiting
          /\ \A v \in DOMAIN waiting : /\ waiting'[v].at = waiting[v].at
                                       /\ waiting'[v].wish = waiting[v].wish
          /\ UNCHANGED <<clock, fails, blocks, pc, req>>
      BY <1>3
      DEF Heartbeat, Lapse, TypeInv, TypeOK, ServerOK, Entry, bounds, tables
    <2>2. QED
      BY <2>1, EnqueueSame DEF ClockOK, NoStrandedPair
  <1>4. ASSUME NEW u \in Users, ReclaimRow(u)
        PROVE  PoolInv'
    BY <1>4, <1>a, PoolSame, EnqueueSame DEF ReclaimRow, bounds
  <1>5. CASE SweepStale
    BY <1>5, <1>a, PoolDrop, EnqueueSame DEF SweepStale, bounds, tables
  <1>6. ASSUME NEW p \in MayBlock, Block(p[1], p[2]) \/ Unblock(p[1], p[2])
        PROVE  PoolInv'
    <2>1. p = <<p[1], p[2]>>
      OBVIOUS
    <2>2. blocks' \subseteq MayBlock
      BY <1>6, <2>1 DEF Block, Unblock
    <2>3. QED
      BY <1>6, <1>a, <2>2, PoolSame, EnqueueSame
      DEF Block, Unblock, server, bounds
  <1>7. CASE Crash \/ ReclaimFails
    <2>1. Fall
      BY <1>7 DEF Crash, ReclaimFails
    <2>2. EnqueueOK' /\ ClockOK' /\ NoStrandedPair'
      BY <2>1 DEF Fall, EnqueueOK, ClockOK, NoStrandedPair
    <2>3. QED
      BY <2>1, <2>2 DEF Fall, tables
  <1>8. CASE Recover
    BY <1>8, <1>a, PoolSame, EnqueueSame
    DEF Recover, RecoverQueue, RecoverSessions, bounds
  <1>9. QED
    BY <1>1, <1>2, <1>3, <1>4, <1>5, <1>6, <1>7, <1>8, StepPool, ArrivalPool
    DEF Next

LEMMA PoolInit == Init => PoolInv
  BY DEF Init, PoolInv, ClockOK, EnqueueOK, NoStrandedPair

(* As long as no database call fails, nobody enters the pool beside an     *)
(* older compatible entry unless a block made the server pass it over: the *)
(* empty scan and waiting.set share a turn of the event loop, so no        *)
(* interleaving of any number of joins makes two users miss each other.    *)
THEOREM PoolCorrect == Spec => []NoStrandedPair
  BY TablesCorrect, PoolInit, PoolStep, PTL DEF Spec, PoolInv

-----------------------------------------------------------------------------
(***************************************************************************)
(* The users.  InformedOfSession is inductive once a join that is about to *)
(* announce its session is known to announce it to its participants.       *)
(***************************************************************************)
AnnounceOK ==
    \A r \in Reqs :
        pc[r] = "announce" => sess[r].users = {req[r].user, req[r].partner}

TellInv == AnnounceOK /\ InformedOfSession

Tells == {"announce", "sync", "restart"}

(* Nobody connects, no session opens and whoever was telling still is. *)
LEMMA TellFrame ==
    ASSUME TypeInv, InformedOfSession, fails' = 0 => fails = 0,
           \A u \in Users :
              conn'[u] => conn[u] /\ informed[u] \subseteq informed'[u],
           \A s \in Reqs :
              /\ sess'[s].status = "active" => sess[s].status = "active"
              /\ sess'[s].users = sess[s].users,
           \A q \in Reqs : pc[q] \in Tells => pc'[q] = pc[q] /\ req'[q] = req[q]
    PROVE  InformedOfSession'
  <1> SUFFICES ASSUME fails' = 0, NEW u \in Users, conn'[u], ActiveOf(u)' # {},
                      informed'[u] = {}
               PROVE  Telling(u)'
    BY DEF InformedOfSession
  <1>1. ActiveOf(u) # {}
    BY DEF ActiveOf
  <1>2. Telling(u)
    BY <1>1 DEF InformedOfSession
  <1>3. QED
    BY <1>2 DEF Telling, Tells

(* A handler that tells nobody moves on. *)
LEMMA TellMoves ==
    ASSUME TypeInv, TellInv, NEW r \in Reqs, NEW l, Moves(r, l),
           pc[r] \notin Tells, UNCHANGED <<conn, informed, fails>>
    PROVE  TellInv'
  <1> USE DEF TellInv, Moves, Goto, TypeInv, TypeOK, HandlersOK
  <1>1. \A q \in Reqs : pc[q] \in Tells => pc'[q] = pc[q] /\ req'[q] = req[q]
    OBVIOUS
  <1>2. InformedOfSession'
    BY <1>1, TellFrame
  <1>3. AnnounceOK'
    BY DEF AnnounceOK
  <1>4. QED
    BY <1>2, <1>3

LEMMA StepTell ==
    ASSUME TypeInv, TableInv, TellInv, NEW r \in Reqs, Step(r)
    PROVE  TellInv'
  <1> USE DEF TellInv, TypeInv, TypeOK, HandlersOK, TablesOK
  <1>b. req[r] \in Local /\ LocalAt(pc[r], req[r])
    BY DEF LocalsOK
  <1>1. CASE JoinCreate(r)
    <2>1. /\ pc[r] = "create" /\ pc' = [pc EXCEPT ![r] = "announce"]
          /\ UNCHANGED <<req, conn, informed, fails>>
          /\ sess'[r].users = {req[r].user, req[r].partner}
          /\ \A s \in Reqs \ {r} : sess'[s] = sess[s]
      BY <1>1 DEF JoinCreate, Goto, server, bounds
    <2>2. AnnounceOK'
      BY <2>1 DEF AnnounceOK
    <2>3. InformedOfSession'
      <3> SUFFICES ASSUME fails' = 0, NEW u \in Users, conn'[u],
                          NEW s \in Reqs, sess'[s].status = "active",
                          u \in sess'[s].users, informed'[u] = {}
                   PROVE  Telling(u)'
        BY DEF InformedOfSession, ActiveOf
      <3>1. CASE s = r
        BY <2>1, <3>1 DEF Telling
      <3>2. CASE s # r
        <4>1. s \in ActiveOf(u)
          BY <2>1, <3>2 DEF ActiveOf
        <4>2. Telling(u)
          BY <2>1, <4>1 DEF InformedOfSession
        <4>3. QED
          BY <2>1, <4>2 DEF Telling
      <3>3. QED
        BY <3>1, <3>2
    <2>4. QED
      BY <2>2, <2>3
  <1>2. CASE EndWrite(r)
    <2>1. /\ pc[r] = "end_write" /\ pc' = [pc EXCEPT ![r] = "done"]
          /\ \A q \in Reqs \ {r} : req'[q] = req[q]
          /\ UNCHANGED <<conn, informed, fails>>
      BY <1>2 DEF EndWrite, Finish, Goto, server, bounds
    <2>2. \A s \in Reqs :
             /\ sess'[s].status = "active" => sess[s].status = "active"
             /\ sess'[s].users = sess[s].users
      BY <1>2, EndWriteEffect
    <2>3. \A q \in Reqs : pc[q] \in Tells => pc'[q] = pc[q] /\ req'[q] = req[q]
      BY <2>1 DEF Tells
    <2>4. InformedOfSession'
      BY <2>1, <2>2, <2>3, TellFrame
    <2>5. AnnounceOK'
      BY <2>1, <2>2 DEF AnnounceOK
    <2>6. QED
      BY <2>4, <2>5
  <1>3. ASSUME ~JoinCreate(r), ~EndWrite(r)
        PROVE  AnnounceOK'
    BY <1>3, StepMoves DEF Moves, Goto, AnnounceOK
  <1>4. CASE JoinAnnounce(r)
    <2>1. /\ pc[r] = "announce" /\ pc' = [pc EXCEPT ![r] = "done"]
          /\ \A q \in Reqs \ {r} : req'[q] = req[q]
          /\ UNCHANGED <<conn, fails, sess>>
          /\ Inform(sess[r].users, r)
      BY <1>4 DEF JoinAnnounce, Finish, Goto, server, bounds, tables, AnnounceOK
    <2>2. InformedOfSession'
      <3> SUFFICES ASSUME fails' = 0, NEW u \in Users, conn'[u],
                          ActiveOf(u)' # {}, informed'[u] = {}
                   PROVE  Telling(u)'
        BY DEF InformedOfSession
      <3>1. informed[u] = {} /\ u \notin sess[r].users
        BY <2>1 DEF Inform
      <3>2. Telling(u)
        BY <2>1, <3>1 DEF InformedOfSession, ActiveOf
      <3>3. QED
        BY <2>1, <3>1, <3>2 DEF Telling
    <2>3. QED
      BY <1>3, <1>4, <2>2 DEF JoinAnnounce, JoinCreate, EndWrite
  <1>5. CASE RestartSession(r)
    <2>1. /\ pc[r] = "restart" /\ pc' = [pc EXCEPT ![r] = "done"]
          /\ \A q \in Reqs \ {r} : req'[q] = req[q]
          /\ UNCHANGED <<conn, fails, sess>>
          /\ Inform({req[r].user}, req[r].sess)
      BY <1>5 DEF RestartSession, Finish, Goto, server, bounds, tables
    <2>2. InformedOfSession'
      <3> SUFFICES ASSUME fails' = 0, NEW u \in Users, conn'[u],
                          ActiveOf(u)' # {}, informed'[u] = {}
                   PROVE  Telling(u)'
        BY DEF InformedOfSession
      <3>1. informed[u] = {} /\ u # req[r].user
        BY <2>1 DEF Inform
      <3>2. Telling(u)
        BY <2>1, <3>1 DEF InformedOfSession, ActiveOf
      <3>3. QED
        BY <2>1, <3>1, <3>2 DEF Telling
    <2>3. QED
      BY <1>3, <1>5, <2>2 DEF RestartSession, JoinCreate, EndWrite
  <1>6. CASE ReadSession(r)
    <2>1. /\ pc[r] \in {"session", "sync"}
          /\ \A q \in Reqs \ {r} : pc'[q] = pc[q] /\ req'[q] = req[q]
          /\ UNCHANGED <<conn, fails, sess, informed>>
      BY <1>6 DEF ReadSession, Finish, Goto, server, bounds, tables
    <2>2. \/ pc'[r] = "restart" /\ req'[r].user = req[r].user
          \/ ActiveOf(req[r].user) = {}
      BY <1>b, <1>6 DEF ReadSession, Goto, Local
    <2>3. InformedOfSession'
      <3> SUFFICES ASSUME fails' = 0, NEW u \in Users, conn'[u],
                          ActiveOf(u)' # {}, informed'[u] = {}
                   PROVE  Telling(u)'
        BY DEF InformedOfSession
      <3>1. ActiveOf(u) # {} /\ Telling(u)
        BY <2>1 DEF InformedOfSession, ActiveOf
      <3>2. QED
        BY <2>1, <2>2, <3>1 DEF Telling
    <2>4. QED
      BY <1>3, <1>6, <2>3 DEF ReadSession, JoinCreate, EndWrite
  <1>7. CASE ~ (JoinCreate(r) \/ EndWrite(r) \/ JoinAnnounce(r)
                   \/ RestartSession(r) \/ ReadSession(r))
    <2>1. pc[r] \notin Tells /\ UNCHANGED <<conn, informed, fails>>
      BY <1>7
      DEF Step, JoinSnapshot, JoinCheckBlock, JoinEnqueue, JoinUpsert,
          JoinClaim, Dequeue, WriteReport, EndRead, GraceExpires,
          LookupSession, Tells, server, bounds
    <2>2. QED
      BY <1>7, <2>1, StepMoves, TellMoves
  <1>8. QED
    BY <1>1, <1>2, <1>4, <1>5, <1>6, <1>7

LEMMA ArrivalTell ==
    ASSUME TypeInv, TellInv, NEW r \in Reqs, Arrival(r)
    PROVE  TellInv'
  <1> USE DEF TellInv, TypeInv, TypeOK, HandlersOK
  <1>1. AnnounceOK'
    BY ArrivalMoves DEF Moves, Goto, AnnounceOK
  <1>2. /\ pc[r] = "idle"
        /\ \A q \in Reqs \ {r} : pc'[q] = pc[q] /\ req'[q] = req[q]
        /\ UNCHANGED <<fails, sess>>
    BY DEF Arrival, JoinQueue, LeaveQueue, LeaveSession, ReportMatch,
           Disconnect, Connect, Arrive, Goto, tables, bounds
  <1>3. CASE \A u \in Users : conn'[u] =>
                conn[u] /\ informed[u] \subseteq informed'[u]
    <2>1. \A q \in Reqs : pc[q] \in Tells => pc'[q] = pc[q] /\ req'[q] = req[q]
      BY <1>2 DEF Tells
    <2>2. QED
      BY <1>1, <1>2, <1>3, <2>1, TellFrame
  <1>4. ASSUME NEW u \in Users, Connect(r, u)
        PROVE  InformedOfSession'
    <2>1. /\ pc'[r] = "sync" /\ req'[r].user = u
          /\ \A v \in Users \ {u} : conn'[v] = conn[v]
          /\ UNCHANGED informed
      BY <1>4 DEF Connect, Goto, Local, ServerOK
    <2> SUFFICES ASSUME fails' = 0, NEW v \in Users, conn'[v],
                        ActiveOf(v)' # {}, informed'[v] = {}
                 PROVE  Telling(v)'
      BY DEF InformedOfSession
    <2>2. CASE v = u
      BY <2>1, <2>2 DEF Telling
    <2>3. CASE v # u
      <3>1. ActiveOf(v) # {} /\ Telling(v)
        BY <1>2, <2>1, <2>3 DEF InformedOfSession, ActiveOf
      <3>2. QED
        BY <1>2, <3>1 DEF Telling
    <2>4. QED
      BY <2>2, <2>3
  <1>5. ASSUME NEW u \in Users, Disconnect(r, u)
        PROVE  \A v \in Users : conn'[v] =>
                  conn[v] /\ informed[v] \subseteq informed'[v]
    BY <1>5 DEF Disconnect, ServerOK
  <1>6. CASE UNCHANGED <<conn, informed>>
    BY <1>3, <1>6
  <1>7. QED
    BY <1>1, <1>3, <1>4, <1>5, <1>6
    DEF Arrival, JoinQueue, LeaveQueue, LeaveSession, ReportMatch, server

LEMMA TellStep == TypeInv /\ TableInv /\ TellInv /\ [Next]_vars => TellInv'
  <1> SUFFICES ASSUME TypeInv, TableInv, TellInv, [Next]_vars
               PROVE  TellInv'
    OBVIOUS
  <1> USE DEF TellInv
  <1>0. fails \in Nat
    BY DEF TypeInv, TypeOK
  <1>1. CASE UNCHANGED <<conn, informed, fails, pc, req, sess>>
    BY <1>1, TellFrame DEF AnnounceOK
  <1>2. CASE UNCHANGED vars
    BY <1>1, <1>2 DEF vars, server, tables, bounds
  <1>3. ASSUME NEW r \in Reqs, JoinRollback(r) \/ QueryFails(r)
        PROVE  TellInv'
    <2>1. fails' # 0
      BY <1>0, <1>3 DEF JoinRollback, QueryFails
    <2>2. AnnounceOK'
      BY <1>3 DEF JoinRollback, QueryFails, Finish, Goto, AnnounceOK, TypeInv,
                  TypeOK, HandlersOK, tables
    <2>3. QED
      BY <2>1, <2>2 DEF InformedOfSession
  <1>4. ASSUME NEW u \in Users, Heartbeat(u) \/ Lapse(u) \/ ReclaimRow(u)
        PROVE  TellInv'
    BY <1>1, <1>4 DEF Heartbeat, Lapse, ReclaimRow, tables, bounds
  <1>5. ASSUME NEW p \in MayBlock, Block(p[1], p[2]) \/ Unblock(p[1], p[2])
        PROVE  TellInv'
    BY <1>1, <1>5 DEF Block, Unblock, server, bounds
  <1>6. CASE SweepStale \/ RecoverQueue
    BY <1>1, <1>6 DEF SweepStale, RecoverQueue, tables, bounds
  <1>7. CASE Crash \/ ReclaimFails
    <2>1. Fall
      BY <1>7 DEF Crash, ReclaimFails
    <2>2. QED
      BY <2>1 DEF Fall, AnnounceOK, InformedOfSession
  <1>8. CASE RecoverSessions
    <2>1. \A s \in Reqs :
             /\ sess'[s].status = "active" => sess[s].status = "active"
             /\ sess'[s].users = sess[s].users
      BY <1>8 DEF RecoverSessions
    <2>2. UNCHANGED <<conn, informed, fails, pc, req>>
      BY <1>8 DEF RecoverSessions, bounds
    <2>3. InformedOfSession'
      BY <2>1, <2>2, TellFrame
    <2>4. QED
      BY <2>1, <2>2, <2>3 DEF AnnounceOK
  <1>9. QED
    BY <1>2, <1>3, <1>4, <1>5, <1>6, <1>7, <1>8, StepTell, ArrivalTell
    DEF Next, Recover

LEMMA TellInit == Init => TellInv
  BY DEF Init, TellInv, AnnounceOK, InformedOfSession, ActiveOf, NoSession

(* As long as no database call fails, a connected user who is in an active *)
(* session has been sent a SESSION_STARTED by a handler that served this   *)
(* connection, or one that will send it is running.                        *)
THEOREM InformedCorrect == Spec => []InformedOfSession
  BY TablesCorrect, TellInit, TellStep, PTL DEF Spec, TellInv

-----------------------------------------------------------------------------
(***************************************************************************)
(* Blocks.  A join commits itself to a pair only at its block query.       *)
(***************************************************************************)
Commits == {"claim", "create"}

(* A request is committed to a pair only when it was, or finds no block. *)
CommitsBy(q) ==
    pc'[q] \in Commits =>
        \/ /\ pc[q] \in Commits
           /\ req'[q].user = req[q].user
           /\ req'[q].partner = req[q].partner
        \/ ~BlockedEitherWay(req'[q].user, req'[q].partner)

LEMMA OwnCommit ==
    ASSUME TypeInv, NEW r \in Reqs, Step(r)
    PROVE  CommitsBy(r)
  <1> USE DEF TypeInv, TypeOK, HandlersOK, CommitsBy, Commits, Goto
  <1>1. req[r] \in Local
    OBVIOUS
  <1>2. ASSUME Finish(r) PROVE CommitsBy(r)
    BY <1>2 DEF Finish
  <1>3. CASE JoinCheckBlock(r)
    <2>1. PICK c \in req[r].cands :
             \/ /\ ~BlockedEitherWay(req[r].user, c.id)
                /\ req' = [req EXCEPT ![r] = [@ EXCEPT !.partner = c.id,
                                                      !.cands = {}]]
             \/ pc'[r] \notin Commits
      BY <1>3 DEF JoinCheckBlock
    <2>2. CASE req' = [req EXCEPT ![r] = [@ EXCEPT !.partner = c.id,
                                                  !.cands = {}]]
      <3>1. req'[r] = [req[r] EXCEPT !.partner = c.id, !.cands = {}]
        BY <2>2
      <3>2. req'[r].user = req[r].user /\ req'[r].partner = c.id
        BY <1>1, <3>1 DEF Local
      <3>3. QED
        BY <2>1, <3>2
    <2>3. QED
      BY <2>1, <2>2
  <1>4. CASE JoinClaim(r)
    BY <1>1, <1>4 DEF JoinClaim, Local
  <1>5. CASE ReadSession(r) \/ RestartSession(r) \/ JoinSnapshot(r)
                \/ JoinEnqueue(r) \/ JoinUpsert(r) \/ JoinCreate(r)
    BY <1>2, <1>5 DEF ReadSession, RestartSession, JoinSnapshot, JoinEnqueue,
       JoinUpsert, JoinCreate
  <1>6. CASE JoinAnnounce(r) \/ Dequeue(r) \/ WriteReport(r) \/ EndRead(r)
                \/ EndWrite(r) \/ GraceExpires(r) \/ LookupSession(r)
    BY <1>2, <1>6 DEF JoinAnnounce, Dequeue, WriteReport, EndRead, EndWrite,
       GraceExpires, LookupSession
  <1>7. QED
    BY <1>3, <1>4, <1>5, <1>6 DEF Step

LEMMA NextCommit ==
    ASSUME TypeInv, TableInv, [Next]_vars, NEW q \in Reqs
    PROVE  CommitsBy(q)
  <1> USE DEF TypeInv, TypeOK, HandlersOK
  <1>1. ASSUME pc'[q] = pc[q], req'[q] = req[q] PROVE CommitsBy(q)
    BY <1>1 DEF CommitsBy
  <1>2. ASSUME pc'[q] \notin Commits PROVE CommitsBy(q)
    BY <1>2 DEF CommitsBy
  <1>3. ASSUME NEW r \in Reqs, Step(r) \/ Finish(r), r # q
        PROVE  CommitsBy(q)
    <2>1. CASE Finish(r)
      BY <1>1, <1>3, <2>1 DEF Finish, Goto
    <2>2. CASE JoinCreate(r) \/ EndWrite(r)
      BY <1>1, <1>3, <2>2 DEF JoinCreate, EndWrite, Finish, Goto
    <2>3. CASE Step(r) /\ ~JoinCreate(r) /\ ~EndWrite(r)
      BY <1>1, <1>3, <2>3, StepMoves DEF Moves, Goto
    <2>4. QED
      BY <1>3, <2>1, <2>2, <2>3
  <1>4. ASSUME NEW r \in Reqs, Arrival(r) PROVE CommitsBy(q)
    <2>1. CASE r = q
      BY <1>2, <1>4, <2>1 DEF Arrival, JoinQueue, LeaveQueue, LeaveSession,
         ReportMatch, Disconnect, Connect, Arrive, Goto, Commits
    <2>2. CASE r # q
      BY <1>1, <1>4, <2>2, ArrivalMoves DEF Moves, Goto
    <2>3. QED
      BY <2>1, <2>2
  <1>5. ASSUME NEW r \in Reqs, JoinRollback(r) \/ QueryFails(r)
        PROVE  CommitsBy(q)
    <2>1. Finish(r)
      BY <1>5 DEF JoinRollback, QueryFails
    <2>2. CASE r = q
      BY <1>2, <2>1, <2>2 DEF Finish, Goto, Commits
    <2>3. QED
      BY <1>3, <2>1, <2>2
  <1>6. CASE Crash \/ ReclaimFails
    <2>1. Fall
      BY <1>6 DEF Crash, ReclaimFails
    <2>2. QED
      BY <1>2, <2>1 DEF Fall, Commits
  <1>7. CASE UNCHANGED <<pc, req>>
    BY <1>1, <1>7
  <1>8. CASE \/ \E u \in Users : Heartbeat(u) \/ Lapse(u) \/ ReclaimRow(u)
             \/ SweepStale \/ Recover
             \/ \E p \in MayBlock : Block(p[1], p[2]) \/ Unblock(p[1], p[2])
    BY <1>7, <1>8 DEF Heartbeat, Lapse, ReclaimRow, SweepStale, Recover,
       RecoverQueue, RecoverSessions, Block, Unblock
  <1>9. ASSUME NEW r \in Reqs, Step(r) PROVE CommitsBy(q)
    BY <1>3, <1>9, OwnCommit
  <1>10. QED
    BY <1>4, <1>5, <1>6, <1>7, <1>8, <1>9 DEF Next, vars

(* Participants are written only by the creating join. *)
LEMMA UsersByCreate ==
    ASSUME TypeInv, TableInv, [Next]_vars, NEW s \in Reqs,
           sess'[s].users # sess[s].users
    PROVE  /\ pc[s] = "create"
           /\ sess'[s].users = {req[s].user, req[s].partner}
  <1> USE DEF TypeInv, TypeOK, TablesOK
  <1>1. CASE UNCHANGED sess
    BY <1>1
  <1>2. ASSUME NEW r \in Reqs, JoinCreate(r)
        PROVE  /\ pc[s] = "create"
               /\ sess'[s].users = {req[s].user, req[s].partner}
    BY <1>2 DEF JoinCreate
  <1>3. ASSUME NEW r \in Reqs, EndWrite(r) PROVE FALSE
    BY <1>3, EndWriteEffect
  <1>4. CASE RecoverSessions
    BY <1>4 DEF RecoverSessions
  <1>5. QED
    BY <1>1, <1>2, <1>3, <1>4, Frame DEF vars, tables

(* Once no pairing of two blocked users has passed its block query, they   *)
(* are not paired as long as the block stands.                             *)
THEOREM BlockedCorrect == Spec => BlockSealsPairing
  <1> DEFINE Seals == \A u, v \in Users :
                /\ BlockedEitherWay(u, v) /\ BlockedEitherWay(u, v)'
                /\ ~Pairing(u, v)
                => ~Pairing(u, v)' /\ SessionsOf(u, v)' \subseteq SessionsOf(u, v)
  <1>1. ASSUME TypeInv, TableInv, [Next]_vars, NEW u \in Users, NEW v \in Users,
               BlockedEitherWay(u, v), ~Pairing(u, v)
        PROVE  ~Pairing(u, v)' /\ SessionsOf(u, v)' \subseteq SessionsOf(u, v)
    <2>1. ASSUME NEW q \in Reqs, pc'[q] \in Commits,
                 {req'[q].user, req'[q].partner} = {u, v}
          PROVE  FALSE
      <3>1. CommitsBy(q)
        BY <1>1, NextCommit
      <3>2. \/ req'[q].user = u /\ req'[q].partner = v
            \/ req'[q].user = v /\ req'[q].partner = u
        BY <2>1
      <3>3. BlockedEitherWay(req'[q].user, req'[q].partner)
        BY <1>1, <3>2 DEF BlockedEitherWay
      <3>4. QED
        BY <1>1, <2>1, <3>1, <3>3 DEF CommitsBy, Pairing, Commits
    <2>2. ASSUME NEW s \in Reqs, sess'[s].users = {u, v}, sess[s].users # {u, v}
          PROVE  FALSE
      <3>1. pc[s] = "create" /\ {req[s].user, req[s].partner} = {u, v}
        BY <1>1, <2>2, UsersByCreate
      <3>2. QED
        BY <1>1, <3>1 DEF Pairing
    <2>3. QED
      BY <2>1, <2>2 DEF Pairing, Commits, SessionsOf
  <1>2. TypeInv /\ TableInv /\ [Next]_vars => [Seals]_vars
    BY <1>1
  <1>3. QED
    BY <1>2, TablesCorrect, PTL DEF Spec, BlockSealsPairing
=============================================================================
