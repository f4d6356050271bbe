------------------------------ MODULE Matching ------------------------------
(***************************************************************************)
(* The anonymous matching engine: the in-memory waiting pool of            *)
(* matchingService.ts, the tables behind matchingRepository.ts and the     *)
(* part of socketServer.ts that starts its handlers.                       *)
(*                                                                         *)
(* The server is one Node process.  A handler runs alone until it awaits   *)
(* the database, and while it waits any other handler may run.  Each       *)
(* socket event, connection or disconnection is one request r \in Reqs     *)
(* with its own program counter; one action of this module is one          *)
(* database statement (or transaction) or one uninterrupted piece of       *)
(* JavaScript between two awaits.  A request is used once and Reqs is any  *)
(* set, so the number of requests is a bound only where a .cfg gives one.  *)
(* The session a join creates is named by the request that created it.     *)
(***************************************************************************)
EXTENDS Naturals, FiniteSets

CONSTANTS
    Users,       \* user ids
    Reqs,        \* requests; also the ids of the sessions they create
    Modes,       \* match modes a client asks for
    Genders,     \* profile genders
    Gender,      \* Gender[u] is the gender in u's profile
    Prefs,       \* gender preferences a client asks for
    Kinds,       \* the kinds of request that occur
    MayBlock,    \* pairs <<blocker, blocked>> that may come to exist
    MaxFails,    \* bound on failed database calls
    MaxCrashes,  \* bound on crashes of the process
    NoUser, NoReq

AllKinds == {"join", "leave_queue", "leave_session", "report",
             "disconnect", "connect", "heartbeat"}

ASSUME MatchingAssumption ==
    /\ "text" \in Modes
    /\ "other" \in Genders
    /\ Gender \in [Users -> Genders]
    /\ "all" \in Prefs
    /\ Prefs \subseteq Genders \cup {"all"}
    /\ Kinds \subseteq AllKinds
    /\ MayBlock \subseteq Users \X Users
    /\ MaxFails \in Nat
    /\ MaxCrashes \in Nat
    /\ NoUser \notin Users
    /\ NoReq \notin Reqs

VARIABLES
    phase,     \* "up", or how far a restart has come: "down", "cleared"
    conn,      \* conn[u]: the room user:u has a socket
    waiting,   \* the pool: a Map from user id to WaitingEntry
    clock,     \* order of Date.now() at enqueue time
    reclaim,   \* users whose queue row the sweeper is still deleting
    pc,        \* where each request is
    req,       \* its local variables
    rows,      \* users with a row in match_queue
    sess,      \* anon_sessions with session_participants
    history,   \* rows of match_history per session
    reports,   \* <<reporter, session>> of stored match reports
    blocks,    \* rows of blocked_users
    informed,  \* sessions each user's open page got SESSION_STARTED for
    fails,     \* failed database calls so far
    crashes    \* crashes so far

server == <<phase, conn, waiting, clock, reclaim>>
tables == <<rows, sess, history, reports, blocks>>
bounds == <<fails, crashes>>
vars == <<server, pc, req, tables, informed, bounds>>

-----------------------------------------------------------------------------
(* The pool.  A wish is what an entry asks for and offers. *)

Wish == [gender : Genders, pref : Prefs, mode : Modes]

(* What the catch block assumes of a partner whose entry was already gone. *)
DefaultWish == [gender |-> "other", pref |-> "all", mode |-> "text"]

Entry == [wish : Wish, at : Nat, fresh : BOOLEAN]

Accepts(pref, gender) == pref = "all" \/ pref = gender

(* Same mode and mutual gender preference; symmetric in its arguments. *)
Compatible(w, v) ==
    /\ w.mode = v.mode
    /\ Accepts(w.pref, v.gender)
    /\ Accepts(v.pref, w.gender)

Put(map, key, val) ==
    [k \in DOMAIN map \cup {key} |-> IF k = key THEN val ELSE map[k]]

Drop(map, keys) == [k \in DOMAIN map \ keys |-> map[k]]

(* waiting.set: a new entry, just now, with a fresh heartbeat. *)
Enqueue(u, wish) ==
    /\ waiting' = Put(waiting, u, [wish |-> wish, at |-> clock, fresh |-> TRUE])
    /\ clock' = clock + 1

(* The synchronous scan at the head of pickPartner. *)
Candidates(u, wish) ==
    {[id |-> v, at |-> waiting[v].at] :
        v \in {w \in DOMAIN waiting \ {u} : Compatible(wish, waiting[w].wish)}}

(* isBlockedEitherWay *)
BlockedEitherWay(u, v) == <<u, v>> \in blocks \/ <<v, u>> \in blocks

(* Sessions and participants *)

Session == [status : {"none", "active", "ended", "expired"},
            users : SUBSET Users,
            reason : {"none", "left", "disconnect", "expired", "reported"}]

NoSession == [status |-> "none", users |-> {}, reason |-> "none"]

ActiveOf(u) == {s \in Reqs : sess[s].status = "active" /\ u \in sess[s].users}

(* Local variables of a request. *)
Local == [user : Users \cup {NoUser},
          wish : Wish,
          cands : SUBSET [id : Users, at : Nat],
          partner : Users \cup {NoUser},
          old : Wish,
          sess : Reqs \cup {NoReq},
          reason : {"none", "left", "disconnect", "reported"}]

Blank == [user |-> NoUser, wish |-> DefaultWish, cands |-> {},
          partner |-> NoUser, old |-> DefaultWish, sess |-> NoReq,
          reason |-> "none"]

(* Control points whose await is a database call that may be rejected. *)
Awaiting == {"session", "sync", "check", "upsert", "dequeue", "d_dequeue",
             "lookup", "report", "end_read", "end_write"}

PC == Awaiting \cup {"idle", "restart", "snapshot", "enqueue", "claim",
                     "create", "announce", "grace", "done", "lost"}

Goto(r, l) == pc' = [pc EXCEPT ![r] = l]

Finish(r) ==
    /\ Goto(r, "done")
    /\ req' = [req EXCEPT ![r] = Blank]

(* emit(user, SESSION_STARTED) to those of U that have a socket now. *)
Inform(U, s) ==
    informed' = [u \in Users |->
                    IF u \in U /\ conn[u] THEN informed[u] \cup {s}
                                          ELSE informed[u]]

(* A client event reaches the server: r starts with the given locals. *)
Arrive(r, kind, u, l) ==
    /\ kind \in Kinds
    /\ phase = "up"
    /\ conn[u]
    /\ pc[r] = "idle"
    /\ Goto(r, l)

(* The state when the server listens and every user has just connected. *)
Init ==
    /\ phase = "up"
    /\ conn = [u \in Users |-> TRUE]
    /\ waiting = [u \in {} |-> {}]
    /\ clock = 0
    /\ reclaim = {}
    /\ pc = [r \in Reqs |-> "idle"]
    /\ req = [r \in Reqs |-> Blank]
    /\ rows = {}
    /\ sess = [r \in Reqs |-> NoSession]
    /\ history = [r \in Reqs |-> 0]
    /\ reports = {}
    /\ blocks = {}
    /\ informed = [u \in Users |-> {}]
    /\ fails = 0
    /\ crashes = 0

-----------------------------------------------------------------------------
(* JOIN_QUEUE *)

JoinQueue(r, u, pref, mode) ==
    /\ Arrive(r, "join", u, "session")
    /\ req' = [req EXCEPT ![r] = [@ EXCEPT !.user = u,
            !.wish = [gender |-> Gender[u], pref |-> pref, mode |-> mode]]]
    /\ UNCHANGED <<server, tables, informed, bounds>>

(* checkSession's query, for a join or for a new connection: LIMIT 1 picks  *)
(* any active session of the user.                                         *)
ReadSession(r) ==
    /\ pc[r] \in {"session", "sync"}
    /\ \/ \E s \in ActiveOf(req[r].user) :
            /\ Goto(r, "restart")
            /\ req' = [req EXCEPT ![r].sess = s]
       \/ /\ ActiveOf(req[r].user) = {}
          /\ pc[r] = "session"
          /\ Goto(r, "snapshot")
          /\ UNCHANGED req
       \/ /\ ActiveOf(req[r].user) = {}
          /\ pc[r] = "sync"
          /\ Finish(r)
    /\ UNCHANGED <<server, tables, informed, bounds>>

(* checkSession found a session: SESSION_STARTED again, and nothing else. *)
RestartSession(r) ==
    /\ pc[r] = "restart"
    /\ Inform({req[r].user}, req[r].sess)
    /\ Finish(r)
    /\ UNCHANGED <<server, tables, bounds>>

(* Variant: something is awaited between an empty scan and waiting.set. *)
JoinSnapshot_AwaitBeforeSet(r) ==
    LET found == Candidates(req[r].user, req[r].wish) IN
    /\ pc[r] = "snapshot"
    /\ Goto(r, IF found = {} THEN "enqueue" ELSE "check")
    /\ req' = [req EXCEPT ![r].cands = found]
    /\ UNCHANGED <<server, tables, informed, bounds>>

(* The profile is loaded: pickPartner scans the pool.  With no candidate   *)
(* nothing is awaited and the user is enqueued in the same turn.           *)
JoinSnapshot(r) ==
    LET found == Candidates(req[r].user, req[r].wish) IN
    /\ pc[r] = "snapshot"
    /\ \/ /\ found # {}
          /\ Goto(r, "check")
          /\ req' = [req EXCEPT ![r].cands = found]
          /\ UNCHANGED <<waiting, clock>>
       \/ /\ found = {}
          /\ Goto(r, "upsert")
          /\ Enqueue(req[r].user, req[r].wish)
          /\ UNCHANGED req
    /\ UNCHANGED <<phase, conn, reclaim, tables, informed, bounds>>

(* Variant: the block query looks in one direction. *)
JoinCheckBlock_OneWay(r) ==
    /\ pc[r] = "check"
    /\ \E c \in req[r].cands :
        /\ \A d \in req[r].cands : c.at <= d.at
        /\ \/ /\ <<req[r].user, c.id>> \notin blocks
              /\ Goto(r, "claim")
              /\ req' = [req EXCEPT ![r] = [@ EXCEPT !.partner = c.id,
                                                    !.cands = {}]]
           \/ /\ <<req[r].user, c.id>> \in blocks
              /\ Goto(r, IF req[r].cands = {c} THEN "enqueue" ELSE "check")
              /\ req' = [req EXCEPT ![r].cands = @ \ {c}]
    /\ UNCHANGED <<server, tables, informed, bounds>>

(* One isBlockedEitherWay query, for the oldest candidate left. *)
JoinCheckBlock(r) ==
    /\ pc[r] = "check"
    /\ \E c \in req[r].cands :
        /\ \A d \in req[r].cands : c.at <= d.at
        /\ \/ /\ ~BlockedEitherWay(req[r].user, c.id)
              /\ Goto(r, "claim")
              /\ req' = [req EXCEPT ![r] = [@ EXCEPT !.partner = c.id,
                                                    !.cands = {}]]
           \/ /\ BlockedEitherWay(req[r].user, c.id)
              /\ Goto(r, IF req[r].cands = {c} THEN "enqueue" ELSE "check")
              /\ req' = [req EXCEPT ![r].cands = @ \ {c}]
    /\ UNCHANGED <<server, tables, informed, bounds>>

(* Every candidate was blocked: pickPartner returned null. *)
JoinEnqueue(r) ==
    /\ pc[r] = "enqueue"
    /\ Enqueue(req[r].user, req[r].wish)
    /\ Goto(r, "upsert")
    /\ UNCHANGED <<req, phase, conn, reclaim, tables, informed, bounds>>

(* upsertWaiting; QUEUE_STATUS follows. *)
JoinUpsert(r) ==
    /\ pc[r] = "upsert"
    /\ rows' = rows \cup {req[r].user}
    /\ Finish(r)
    /\ UNCHANGED <<server, sess, history, reports, blocks, informed, bounds>>

(* Variant: the whole pool entry is kept, and passed on as a wish. *)
JoinClaim_KeepsEntry(r) ==
    /\ pc[r] = "claim"
    /\ waiting' = Drop(waiting, {req[r].user, req[r].partner})
    /\ req' = [req EXCEPT ![r].old = IF req[r].partner \in DOMAIN waiting
                                     THEN waiting[req[r].partner]
                                     ELSE DefaultWish]
    /\ Goto(r, "create")
    /\ UNCHANGED <<phase, conn, clock, reclaim, tables, informed, bounds>>

(* The claim: both users leave the pool.  Whether the partner is still in  *)
(* it is not looked at, only remembered for the rollback.                  *)
JoinClaim(r) ==
    LET u == req[r].user
        p == req[r].partner
    IN
    /\ pc[r] = "claim"
    /\ waiting' = Drop(waiting, {u, p})
    /\ req' = [req EXCEPT ![r].old = IF p \in DOMAIN waiting
                                     THEN waiting[p].wish ELSE DefaultWish]
    /\ Goto(r, "create")
    /\ UNCHANGED <<phase, conn, clock, reclaim, tables, informed, bounds>>

(* createSession: one transaction for the session, its two participants    *)
(* and both queue rows.                                                    *)
JoinCreate(r) ==
    LET pair == {req[r].user, req[r].partner} IN
    /\ pc[r] = "create"
    /\ sess' = [sess EXCEPT ![r] = [status |-> "active", users |-> pair,
                                    reason |-> "none"]]
    /\ rows' = rows \ pair
    /\ Goto(r, "announce")
    /\ UNCHANGED <<server, req, history, reports, blocks, informed, bounds>>

(* areFriends answered: MATCH_FOUND and SESSION_STARTED to both. *)
JoinAnnounce(r) ==
    /\ pc[r] = "announce"
    /\ Inform({req[r].user, req[r].partner}, r)
    /\ Finish(r)
    /\ UNCHANGED <<server, tables, bounds>>

(* createSession or a query after it failed: the catch block puts the      *)
(* partner back in the pool and the user is told MATCH_CANCELLED.          *)
JoinRollback(r) ==
    /\ pc[r] \in {"create", "announce"}
    /\ fails < MaxFails
    /\ fails' = fails + 1
    /\ Enqueue(req[r].partner, req[r].old)
    /\ Finish(r)
    /\ UNCHANGED <<phase, conn, reclaim, tables, informed, crashes>>

-----------------------------------------------------------------------------
(* LEAVE_QUEUE, HEARTBEAT and the sweeper *)

LeaveQueue(r, u) ==
    /\ Arrive(r, "leave_queue", u, "dequeue")
    /\ waiting' = Drop(waiting, {u})
    /\ req' = [req EXCEPT ![r].user = u]
    /\ UNCHANGED <<phase, conn, clock, reclaim, tables, informed, bounds>>

(* removeFromQueue, for a leave or for a disconnect. *)
Dequeue(r) ==
    /\ pc[r] \in {"dequeue", "d_dequeue"}
    /\ rows' = rows \ {req[r].user}
    /\ \/ pc[r] = "dequeue" /\ Finish(r)
       \/ pc[r] = "d_dequeue" /\ Goto(r, "lookup") /\ UNCHANGED req
    /\ UNCHANGED <<server, sess, history, reports, blocks, informed, bounds>>

Heartbeat(u) ==
    /\ "heartbeat" \in Kinds
    /\ phase = "up"
    /\ conn[u]
    /\ u \in DOMAIN waiting
    /\ waiting' = [waiting EXCEPT ![u].fresh = TRUE]
    /\ UNCHANGED <<phase, conn, clock, reclaim, pc, req, tables, informed,
                   bounds>>

(* STALE_MS pass without a heartbeat of u. *)
Lapse(u) ==
    /\ "heartbeat" \in Kinds
    /\ u \in DOMAIN waiting
    /\ waiting[u].fresh
    /\ waiting' = [waiting EXCEPT ![u].fresh = FALSE]
    /\ UNCHANGED <<phase, conn, clock, reclaim, pc, req, tables, informed,
                   bounds>>

(* Variant: the sweep clears the table and leaves the Map alone. *)
SweepStale_RowsOnly ==
    LET stale == {u \in DOMAIN waiting : ~waiting[u].fresh} IN
    /\ phase = "up"
    /\ stale # {}
    /\ reclaim' = reclaim \cup stale
    /\ UNCHANGED <<phase, conn, waiting, clock, pc, req, tables, informed,
                   bounds>>

(* sweepStale: every stale entry leaves the pool at once, MATCH_TIMEOUT is *)
(* sent, and the deletion of the queue rows is started, not awaited.       *)
SweepStale ==
    LET stale == {u \in DOMAIN waiting : ~waiting[u].fresh} IN
    /\ phase = "up"
    /\ stale # {}
    /\ waiting' = Drop(waiting, stale)
    /\ reclaim' = reclaim \cup stale
    /\ UNCHANGED <<phase, conn, clock, pc, req, tables, informed, bounds>>

ReclaimRow(u) ==
    /\ u \in reclaim
    /\ rows' = rows \ {u}
    /\ reclaim' = reclaim \ {u}
    /\ UNCHANGED <<phase, conn, waiting, clock, pc, req, sess, history,
                   reports, blocks, informed, bounds>>

-----------------------------------------------------------------------------
(* LEAVE_SESSION, reportMatch and endSession *)

(* The isParticipant query reads rows that never change, so the request    *)
(* starts only for a participant; others return at once.                   *)
LeaveSession(r, u, s) ==
    /\ u \in sess[s].users
    /\ Arrive(r, "leave_session", u, "end_read")
    /\ req' = [req EXCEPT ![r] = [@ EXCEPT !.user = u, !.sess = s,
                                            !.reason = "left"]]
    /\ UNCHANGED <<server, tables, informed, bounds>>

ReportMatch(r, u, s) ==
    /\ u \in sess[s].users
    /\ Arrive(r, "report", u, "report")
    /\ req' = [req EXCEPT ![r] = [@ EXCEPT !.user = u, !.sess = s,
                                            !.reason = "reported"]]
    /\ UNCHANGED <<server, tables, informed, bounds>>

(* Variant: the report is stored and the session goes on. *)
WriteReport_KeepsSession(r) ==
    /\ pc[r] = "report"
    /\ reports' = reports \cup {<<req[r].user, req[r].sess>>}
    /\ Finish(r)
    /\ UNCHANGED <<server, rows, sess, history, blocks, informed, bounds>>

(* reportRepository.create, after the transcript was read. *)
WriteReport(r) ==
    /\ pc[r] = "report"
    /\ reports' = reports \cup {<<req[r].user, req[r].sess>>}
    /\ Goto(r, "end_read")
    /\ UNCHANGED <<server, req, rows, sess, history, blocks, informed, bounds>>

(* Variant: endSession does not look at the status. *)
EndRead_Unchecked(r) ==
    /\ pc[r] = "end_read"
    /\ Goto(r, "end_write")
    /\ UNCHANGED <<server, req, tables, informed, bounds>>

(* endSession's transaction, under READ COMMITTED: the status is read ...  *)
EndRead(r) ==
    /\ pc[r] = "end_read"
    /\ \/ sess[req[r].sess].status = "active" /\ Goto(r, "end_write")
          /\ UNCHANGED req
       \/ sess[req[r].sess].status # "active" /\ Finish(r)
    /\ UNCHANGED <<server, tables, informed, bounds>>

(* ... and the session is closed and the history row inserted whatever was *)
(* committed in between.  SESSION_ENDED follows.                           *)
EndWrite(r) ==
    LET s == req[r].sess IN
    /\ pc[r] = "end_write"
    /\ sess' = [sess EXCEPT ![s].status = "ended",
                            ![s].reason = req[r].reason]
    /\ history' = [history EXCEPT ![s] = @ + 1]
    /\ Finish(r)
    /\ UNCHANGED <<server, rows, reports, blocks, informed, bounds>>

-----------------------------------------------------------------------------
(* Sockets *)

(* The user's last socket closes; the 5 s grace timer starts. *)
Disconnect(r, u) ==
    /\ Arrive(r, "disconnect", u, "grace")
    /\ conn' = [conn EXCEPT ![u] = FALSE]
    /\ informed' = [informed EXCEPT ![u] = {}]
    /\ req' = [req EXCEPT ![r].user = u]
    /\ UNCHANGED <<phase, waiting, clock, reclaim, tables, bounds>>

(* The timer fires: handleDisconnect runs unless the user is back. *)
GraceExpires(r) ==
    /\ pc[r] = "grace"
    /\ \/ /\ conn[req[r].user]
          /\ Finish(r)
          /\ UNCHANGED waiting
       \/ /\ ~conn[req[r].user]
          /\ waiting' = Drop(waiting, {req[r].user})
          /\ Goto(r, "d_dequeue")
          /\ UNCHANGED req
    /\ UNCHANGED <<phase, conn, clock, reclaim, tables, informed, bounds>>

(* handleDisconnect's getActiveSessionForUser: at most one session. *)
LookupSession(r) ==
    /\ pc[r] = "lookup"
    /\ \/ \E s \in ActiveOf(req[r].user) :
            /\ Goto(r, "end_read")
            /\ req' = [req EXCEPT ![r] = [@ EXCEPT !.sess = s,
                                                    !.reason = "disconnect"]]
       \/ ActiveOf(req[r].user) = {} /\ Finish(r)
    /\ UNCHANGED <<server, tables, informed, bounds>>

(* Variant: no checkSession on connection. *)
Connect_NoCheck(r, u) ==
    /\ "connect" \in Kinds
    /\ phase = "up"
    /\ ~conn[u]
    /\ pc[r] = "idle"
    /\ conn' = [conn EXCEPT ![u] = TRUE]
    /\ Finish(r)
    /\ UNCHANGED <<phase, waiting, clock, reclaim, tables, informed, bounds>>

(* A new page connects: it joins its room, then checkSession starts. *)
Connect(r, u) ==
    /\ "connect" \in Kinds
    /\ phase = "up"
    /\ ~conn[u]
    /\ pc[r] = "idle"
    /\ conn' = [conn EXCEPT ![u] = TRUE]
    /\ Goto(r, "sync")
    /\ req' = [req EXCEPT ![r].user = u]
    /\ UNCHANGED <<phase, waiting, clock, reclaim, tables, informed, bounds>>

-----------------------------------------------------------------------------
(* Blocks (friendService), database failures and the process itself *)

Block(u, v) ==
    /\ phase = "up"
    /\ blocks' = blocks \cup {<<u, v>>}
    /\ UNCHANGED <<server, pc, req, rows, sess, history, reports, informed,
                   bounds>>

Unblock(u, v) ==
    /\ phase = "up"
    /\ blocks' = blocks \ {<<u, v>>}
    /\ UNCHANGED <<server, pc, req, rows, sess, history, reports, informed,
                   bounds>>

(* A rejected query outside the pairing: the handler's .catch only logs. *)
QueryFails(r) ==
    /\ pc[r] \in Awaiting
    /\ fails < MaxFails
    /\ fails' = fails + 1
    /\ Finish(r)
    /\ UNCHANGED <<server, tables, informed, crashes>>

(* The process dies: memory, sockets and handlers are gone, tables stay. *)
Fall ==
    /\ phase' = "down"
    /\ conn' = [u \in Users |-> FALSE]
    /\ waiting' = [u \in {} |-> {}]
    /\ reclaim' = {}
    /\ pc' = [r \in Reqs |-> IF pc[r] = "idle" THEN "idle" ELSE "lost"]
    /\ req' = [r \in Reqs |-> Blank]
    /\ informed' = [u \in Users |-> {}]
    /\ UNCHANGED <<clock, tables>>

Crash ==
    /\ crashes < MaxCrashes
    /\ crashes' = crashes + 1
    /\ Fall
    /\ UNCHANGED fails

(* The sweeper's removeFromQueue has no .catch: its rejection is unhandled *)
(* and ends the process.                                                   *)
ReclaimFails ==
    /\ reclaim # {}
    /\ fails < MaxFails
    /\ fails' = fails + 1
    /\ Fall
    /\ UNCHANGED crashes

(* Variant: the server listens before the sessions are expired. *)
RecoverQueue_ListensEarly ==
    /\ phase = "down"
    /\ phase' = "up"
    /\ rows' = {}
    /\ UNCHANGED <<conn, waiting, clock, reclaim, pc, req, sess, history,
                   reports, blocks, informed, bounds>>

(* recover(), first statement: clearAllWaiting. *)
RecoverQueue ==
    /\ phase = "down"
    /\ phase' = "cleared"
    /\ rows' = {}
    /\ UNCHANGED <<conn, waiting, clock, reclaim, pc, req, sess, history,
                   reports, blocks, informed, bounds>>

(* recover(), second statement: expireAllActiveSessions; then listen. *)
RecoverSessions ==
    /\ phase = "cleared"
    /\ phase' = "up"
    /\ sess' = [s \in Reqs |->
                  IF sess[s].status = "active"
                  THEN [status |-> "expired", users |-> sess[s].users,
                        reason |-> "expired"]
                  ELSE sess[s]]
    /\ UNCHANGED <<conn, waiting, clock, reclaim, pc, req, rows, history,
                   reports, blocks, informed, bounds>>

-----------------------------------------------------------------------------
(* A handler goes on after an await or a timer. *)
Step(r) ==
    \/ ReadSession(r) \/ RestartSession(r) \/ JoinSnapshot(r)
    \/ JoinCheckBlock(r) \/ JoinEnqueue(r) \/ JoinUpsert(r) \/ JoinClaim(r)
    \/ JoinCreate(r) \/ JoinAnnounce(r) \/ Dequeue(r) \/ WriteReport(r)
    \/ EndRead(r) \/ EndWrite(r) \/ GraceExpires(r) \/ LookupSession(r)

(* A client event, a connection or a disconnection. *)
Arrival(r) ==
    \E u \in Users :
        \/ \E pref \in Prefs, mode \in Modes : JoinQueue(r, u, pref, mode)
        \/ LeaveQueue(r, u)
        \/ \E s \in Reqs : LeaveSession(r, u, s)
        \/ \E s \in Reqs : ReportMatch(r, u, s)
        \/ Disconnect(r, u)
        \/ Connect(r, u)

Recover == RecoverQueue \/ RecoverSessions

Next ==
    \/ \E r \in Reqs : Step(r) \/ Arrival(r) \/ JoinRollback(r) \/ QueryFails(r)
    \/ \E u \in Users : Heartbeat(u) \/ Lapse(u) \/ ReclaimRow(u)
    \/ SweepStale
    \/ \E p \in MayBlock : Block(p[1], p[2]) \/ Unblock(p[1], p[2])
    \/ Crash \/ ReclaimFails
    \/ Recover

Spec == Init /\ [][Next]_vars

(***************************************************************************)
(* The event loop runs every ready continuation, PostgreSQL answers every  *)
(* query, timers fire, the sweeper runs every 15 s, the process manager    *)
(* restarts a dead server, and a closed page sends no heartbeats.  Nothing *)
(* is assumed of what clients send.                                        *)
(***************************************************************************)
Fairness ==
    /\ \A r \in Reqs : WF_vars(Step(r))
    /\ \A u \in Users : WF_vars(~conn[u] /\ Lapse(u)) /\ WF_vars(ReclaimRow(u))
    /\ WF_vars(SweepStale)
    /\ WF_vars(Recover)

FairSpec == Spec /\ Fairness

-----------------------------------------------------------------------------
(* Properties *)

ServerOK ==
    /\ phase \in {"up", "down", "cleared"}
    /\ conn \in [Users -> BOOLEAN]
    /\ DOMAIN waiting \subseteq Users
    /\ waiting \in [DOMAIN waiting -> Entry]
    /\ clock \in Nat
    /\ reclaim \subseteq Users

HandlersOK ==
    /\ pc \in [Reqs -> PC]
    /\ req \in [Reqs -> Local]

TablesOK ==
    /\ rows \subseteq Users
    /\ sess \in [Reqs -> Session]
    /\ history \in [Reqs -> Nat]
    /\ reports \subseteq Users \X Reqs
    /\ blocks \subseteq Users \X Users

(* Every variable has its type; a pool entry, a request's locals and a     *)
(* session row are always well formed.                                     *)
TypeOK ==
    /\ ServerOK
    /\ HandlersOK
    /\ TablesOK
    /\ informed \in [Users -> SUBSET Reqs]
    /\ fails \in Nat
    /\ crashes \in Nat

(* The session tables keep their promise although endSession reads the     *)
(* status and writes it without a lock, two handlers may be ending one     *)
(* session at once, and a crash may fall anywhere.                         *)
Lifecycle == INSTANCE SessionLifecycle WITH
    Sessions <- Reqs,
    status <- [s \in Reqs |-> sess[s].status],
    users <- [s \in Reqs |-> sess[s].users],
    recorded <- {s \in Reqs : history[s] > 0}

ImplementsLifecycle == Lifecycle!Spec

(* While no database call has failed, a connected user who is in an active *)
(* session has been told of a session, or is about to be: the creating     *)
(* join has yet to announce it, or the page's connect-time checkSession is *)
(* still running.  Concerns joining the room before checkSession, and      *)
(* announcing after the commit, when a page reload races the pairing.      *)
Telling(u) ==
    \/ \E r \in Reqs : pc[r] = "announce" /\ u \in sess[r].users
    \/ \E r \in Reqs : pc[r] \in {"sync", "restart"} /\ req[r].user = u

InformedOfSession ==
    fails = 0 =>
        \A u \in Users :
            conn[u] /\ ActiveOf(u) # {} => informed[u] # {} \/ Telling(u)

(* While no database call has failed, a user who entered the pool after a  *)
(* compatible one was passed over only because of blocks: the scan that    *)
(* finds nobody and the waiting.set that follows are one turn of the event *)
(* loop, so two simultaneous joins cannot both miss each other.            *)
MayBeBlocked(u) == \E p \in MayBlock : u \in {p[1], p[2]}

NoStrandedPair ==
    fails = 0 =>
        \A u, v \in DOMAIN waiting :
            /\ waiting[u].at < waiting[v].at
            /\ Compatible(waiting[u].wish, waiting[v].wish)
            => MayBeBlocked(v)

(* A block is not seen by a pairing that has passed its block query, which *)
(* is a statement of its own; from the moment no such pairing of the two   *)
(* is under way, they are not paired while the block stands.               *)
Pairing(u, v) ==
    \E r \in Reqs :
        /\ pc[r] \in {"claim", "create"}
        /\ {req[r].user, req[r].partner} = {u, v}

SessionsOf(u, v) == {s \in Reqs : sess[s].users = {u, v}}

BlockSealsPairing ==
    [][\A u, v \in Users :
          /\ BlockedEitherWay(u, v) /\ BlockedEitherWay(u, v)'
          /\ ~Pairing(u, v)
          => ~Pairing(u, v)' /\ SessionsOf(u, v)' \subseteq SessionsOf(u, v)]_vars

(* A server that listens has no active session of an earlier life of the   *)
(* process, also when it died in the middle of recover(): its handlers     *)
(* and its partners' grace timers died with it, nobody would end it.       *)
SessionsOfThisBoot ==
    phase = "up" =>
        \A r \in Reqs : sess[r].status = "active" => pc[r] # "lost"

(* A user whose last page is closed for good is not in the pool for good:  *)
(* cleanup and sweeper win against joins, rollbacks and failures in flight.*)
GhostsSwept ==
    \A u \in Users : (<>[]~conn[u]) => (<>[](u \notin DOMAIN waiting))

(* A session someone reported is not left active, whoever else is leaving  *)
(* it and whether or not the server crashes, unless a database call fails. *)
ReportedSessionsEnd ==
    \A s \in Reqs :
        (\E u \in Users : <<u, s>> \in reports)
            ~> (sess[s].status # "active" \/ fails > 0)

-----------------------------------------------------------------------------
(* What a document says and the code does not do: refuted by the run that  *)
(* checks it.                                                              *)

(* docs/MATCHING_ENGINE.md: a user in a session cannot be matched again.   *)
OneActiveSession == \A u \in Users : Cardinality(ActiveOf(u)) <= 1
=============================================================================
