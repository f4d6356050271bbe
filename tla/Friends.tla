------------------------------- MODULE Friends -------------------------------
(***************************************************************************)
(* Friend requests, friendships and blocks: friendService.ts over          *)
(* friendRepository.ts.                                                    *)
(*                                                                         *)
(* Every REST call is a handler h \in Handlers, used once, with its own    *)
(* program counter; one action is one database statement.  Two calls run   *)
(* transactions, whose effects appear when they commit and whose rows are  *)
(* locked until then: acceptRequest locks request rows and reads the       *)
(* friendship (AcceptBegin), then inserts or revives the friendship and    *)
(* commits (AcceptCommit); block locks the active friendship (BlockSever), *)
(* then the pending requests (BlockCancel), and commits (BlockCommit).     *)
(* A friend request is named by the handler that created it; a friendship  *)
(* is stored once per unordered pair.                                      *)
(***************************************************************************)
EXTENDS Naturals, FiniteSets

CONSTANTS
    Users,
    Handlers,    \* REST calls; also the ids of the requests they create
    Refused,     \* <<sender, receiver>>: refused by the receiver's privacy
    MayBlock,    \* <<blocker, blocked>> that may come to exist
    MaxPending,  \* MAX_PENDING_OUTGOING
    Overlap,     \* sends of one user that are past their count together
    NoUser, NoHandler

ASSUME FriendsAssumption ==
    /\ Refused \subseteq Users \X Users
    /\ MayBlock \subseteq Users \X Users
    /\ MaxPending \in Nat
    /\ Overlap \in Nat \ {0}
    /\ NoUser \notin Users
    /\ NoHandler \notin Handlers

VARIABLES
    pc,        \* where each call is
    job,       \* its local variables
    request,   \* friend_requests
    recent,    \* requests rejected less than REJECTION_COOLDOWN_MS ago
    friend,    \* friendships: "none", "active" or "removed" (deleted_at set)
    blocks     \* blocked_users

tables == <<request, recent, friend, blocks>>
vars == <<pc, job, tables>>

Pairs == {{p[1], p[2]} : p \in Users \X Users}

Request == [status : {"none", "pending", "accepted", "rejected", "cancelled"},
            from : Users \cup {NoUser}, to : Users \cup {NoUser}]

NoRequest == [status |-> "none", from |-> NoUser, to |-> NoUser]

Job == [user : Users \cup {NoUser},        \* who calls
        other : Users \cup {NoUser},       \* the other party
        rid : Handlers \cup {NoHandler},   \* the request acted upon
        verdict : {"accepted", "rejected", "cancelled"},
        seen : {"none", "active", "removed"},  \* friendship it read or locked
        rows : SUBSET Handlers,            \* request rows it has locked
        made : SUBSET (Users \X Users)]    \* blocked_users row it has inserted

NoJob == [user |-> NoUser, other |-> NoUser, rid |-> NoHandler,
          verdict |-> "accepted", seen |-> "none", rows |-> {},
          made |-> {}]

PC == {"idle", "friends", "pending", "limits", "cap", "insert",
       "block_check", "accept", "commit", "decide", "remove",
       "sever", "cancel", "seal", "done"}

(* isBlockedEitherWay, areFriends, findPendingBetween and friends. *)
Blocked(u, v) == <<u, v>> \in blocks \/ <<v, u>> \in blocks

Friends(u, v) == friend[{u, v}] = "active"

Pending(u, v) ==
    {r \in Handlers : /\ request[r].status = "pending"
                      /\ request[r].from = u
                      /\ request[r].to = v}

Outgoing(u) == UNION {Pending(u, v) : v \in Users}

CoolingDown(u, v) ==
    \E r \in recent : /\ request[r].status = "rejected"
                      /\ request[r].from = u
                      /\ request[r].to = v

(* What an open transaction has written and others wait for: request rows,  *)
(* the friendship that a block ends, the row of the block itself.          *)
HoldsRow(h, r) == pc[h] \in {"commit", "seal"} /\ r \in job[h].rows

HoldsFriendship(h, p) ==
    /\ pc[h] \in {"cancel", "seal"}
    /\ job[h].seen = "active"
    /\ {job[h].user, job[h].other} = p

HoldsBlock(h, b) == pc[h] \in {"cancel", "seal"} /\ b \in job[h].made

(* What the next statement of a call writes. *)
WantsRow(h, r) ==
    \/ pc[h] \in {"accept", "decide"} /\ r = job[h].rid
    \/ pc[h] \in {"insert", "cancel"} /\ r \in Pending(job[h].user, job[h].other)
    \/ pc[h] \in {"accept", "cancel"} /\ r \in Pending(job[h].other, job[h].user)

WantsFriendship(h) ==
    \/ pc[h] \in {"sever", "remove"}
    \/ pc[h] = "commit" /\ job[h].seen # "active"

WaitsFor(h, g) ==
    /\ g # h
    /\ \/ \E r \in Handlers : WantsRow(h, r) /\ HoldsRow(g, r)
       \/ WantsFriendship(h) /\ HoldsFriendship(g, {job[h].user, job[h].other})
       \/ pc[h] = "sever" /\ HoldsBlock(g, <<job[h].user, job[h].other>>)

Unhindered(h) == \A g \in Handlers : ~WaitsFor(h, g)

Goto(h, l) == pc' = [pc EXCEPT ![h] = l]

Finish(h) ==
    /\ Goto(h, "done")
    /\ job' = [job EXCEPT ![h] = NoJob]

(* A call of u that concerns v (and request r) passes its first read. *)
Start(h, u, v, r, verdict, l) ==
    /\ pc[h] = "idle"
    /\ u # v
    /\ Goto(h, l)
    /\ job' = [job EXCEPT ![h] = [user |-> u, other |-> v, rid |-> r,
                  verdict |-> verdict, seen |-> "none", rows |-> {},
                  made |-> {}]]

Init ==
    /\ pc = [h \in Handlers |-> "idle"]
    /\ job = [h \in Handlers |-> NoJob]
    /\ request = [h \in Handlers |-> NoRequest]
    /\ recent = {}
    /\ friend = [p \in Pairs |-> "none"]
    /\ blocks = {}

-----------------------------------------------------------------------------
(* sendRequest *)

(* The receiver is resolved; isBlockedEitherWay is false. *)
SendRequest(h, u, v) ==
    /\ ~Blocked(u, v)
    /\ Start(h, u, v, NoHandler, "accepted", "friends")
    /\ UNCHANGED tables

SendCheckFriends(h) ==
    /\ pc[h] = "friends"
    /\ \/ ~Friends(job[h].user, job[h].other) /\ Goto(h, "pending")
          /\ UNCHANGED job
       \/ Friends(job[h].user, job[h].other) /\ Finish(h)
    /\ UNCHANGED tables

(* Variant: any pending request between the two is accepted, also one's own. *)
SendFindPending_AnySender(h) ==
    LET found == Pending(job[h].user, job[h].other)
                    \cup Pending(job[h].other, job[h].user)
    IN
    /\ pc[h] = "pending"
    /\ \/ /\ found = {}
          /\ Goto(h, "limits")
          /\ UNCHANGED job
       \/ \E r \in found :
            /\ Goto(h, "accept")
            /\ job' = [job EXCEPT ![h].rid = r]
    /\ UNCHANGED tables

(* findPendingBetween, LIMIT 1: one's own request is a conflict, the other *)
(* user's is accepted at once.                                             *)
SendFindPending(h) ==
    LET mine == Pending(job[h].user, job[h].other)
        theirs == Pending(job[h].other, job[h].user)
    IN
    /\ pc[h] = "pending"
    /\ \/ /\ mine \cup theirs = {}
          /\ Goto(h, "limits")
          /\ UNCHANGED job
       \/ mine # {} /\ Finish(h)
       \/ \E r \in theirs :
            /\ Goto(h, "accept")
            /\ job' = [job EXCEPT ![h].rid = r]
    /\ UNCHANGED tables

(* Variant: the last rejection is not looked up. *)
SendCheckLimits_NoCooldown(h) ==
    LET refused == <<job[h].user, job[h].other>> \in Refused IN
    /\ pc[h] = "limits"
    /\ \/ ~refused /\ Goto(h, "cap") /\ UNCHANGED job
       \/ refused /\ Finish(h)
    /\ UNCHANGED tables

(* assertRecipientAcceptsRequests and lastRejectionAt. *)
SendCheckLimits(h) ==
    LET refused == \/ <<job[h].user, job[h].other>> \in Refused
                   \/ CoolingDown(job[h].user, job[h].other)
    IN
    /\ pc[h] = "limits"
    /\ \/ ~refused /\ Goto(h, "cap") /\ UNCHANGED job
       \/ refused /\ Finish(h)
    /\ UNCHANGED tables

(* Variant: one more than the cap. *)
SendCheckCap_OffByOne(h) ==
    LET full == Cardinality(Outgoing(job[h].user)) > MaxPending IN
    /\ pc[h] = "cap"
    /\ \/ ~full /\ Goto(h, "insert") /\ UNCHANGED job
       \/ full /\ Finish(h)
    /\ UNCHANGED tables

(* countPendingOutgoing *)
SendCheckCap(h) ==
    LET full == Cardinality(Outgoing(job[h].user)) >= MaxPending IN
    /\ pc[h] = "cap"
    /\ \/ ~full /\ Goto(h, "insert") /\ UNCHANGED job
       \/ full /\ Finish(h)
    /\ UNCHANGED tables

(* createRequest.  A pending row of the same ordered pair makes the insert *)
(* fail, or wait when an open transaction is deciding that row.            *)
SendInsert(h) ==
    LET same == Pending(job[h].user, job[h].other) IN
    /\ pc[h] = "insert"
    /\ Unhindered(h)
    /\ \/ /\ same = {}
          /\ request' = [request EXCEPT ![h] =
                [status |-> "pending", from |-> job[h].user,
                 to |-> job[h].other]]
       \/ same # {} /\ UNCHANGED request
    /\ Finish(h)
    /\ UNCHANGED <<recent, friend, blocks>>

-----------------------------------------------------------------------------
(* accept and finalizeAcceptance *)

(* findRequestById: pending, and addressed to the caller. *)
AcceptRequest(h, u, r) ==
    /\ request[r].status = "pending"
    /\ request[r].to = u
    /\ Start(h, u, request[r].from, r, "accepted", "block_check")
    /\ UNCHANGED tables

(* Variant: no isBlockedEitherWay between the lookup and the acceptance. *)
AcceptCheckBlock_Skipped(h) ==
    /\ pc[h] = "block_check"
    /\ Goto(h, "accept")
    /\ UNCHANGED <<job, tables>>

AcceptCheckBlock(h) ==
    /\ pc[h] = "block_check"
    /\ \/ ~Blocked(job[h].user, job[h].other) /\ Goto(h, "accept")
          /\ UNCHANGED job
       \/ Blocked(job[h].user, job[h].other) /\ Finish(h)
    /\ UNCHANGED tables

(* acceptRequest up to its read of the friendship.  The second update is   *)
(* meant for the reverse request but selects sender = b, receiver = a,     *)
(* where a is the accepter: the direction of the accepted request itself.  *)
AcceptBegin(h) ==
    LET rows == {job[h].rid} \cup Pending(job[h].other, job[h].user) IN
    /\ pc[h] = "accept"
    /\ Unhindered(h)
    /\ Goto(h, "commit")
    /\ job' = [job EXCEPT ![h] = [@ EXCEPT !.rows = rows,
                  !.seen = friend[{job[h].user, job[h].other}]]]
    /\ UNCHANGED tables

(* Variant: a unique violation is retried without reading again. *)
AcceptCommit_Retries(h) ==
    LET pair == {job[h].user, job[h].other} IN
    /\ pc[h] = "commit"
    /\ Unhindered(h)
    /\ ~ (job[h].seen = "none" /\ friend[pair] # "none")
    /\ request' = [r \in Handlers |->
                     IF r \in job[h].rows
                     THEN [status |-> "accepted", from |-> request[r].from,
                           to |-> request[r].to]
                     ELSE request[r]]
    /\ friend' = IF job[h].seen = "active" THEN friend
                 ELSE [friend EXCEPT ![pair] = "active"]
    /\ Finish(h)
    /\ UNCHANGED <<recent, blocks>>

(* The rest of it: a friendship inserted meanwhile violates the unique     *)
(* pair and aborts everything; one that was read as removed is revived;    *)
(* one that was read as active is left as it is by now.                    *)
AcceptCommit(h) ==
    LET pair == {job[h].user, job[h].other} IN
    /\ pc[h] = "commit"
    /\ Unhindered(h)
    /\ \/ /\ job[h].seen = "none" /\ friend[pair] # "none"
          /\ UNCHANGED <<request, friend>>
       \/ /\ ~ (job[h].seen = "none" /\ friend[pair] # "none")
          /\ request' = [r \in Handlers |->
                           IF r \in job[h].rows
                           THEN [status |-> "accepted",
                                 from |-> request[r].from,
                                 to |-> request[r].to]
                           ELSE request[r]]
          /\ friend' = IF job[h].seen = "active" THEN friend
                       ELSE [friend EXCEPT ![pair] = "active"]
    /\ Finish(h)
    /\ UNCHANGED <<recent, blocks>>

-----------------------------------------------------------------------------
(* reject, cancel, removeFriend, block, unblock *)

RejectRequest(h, u, r) ==
    /\ request[r].status = "pending"
    /\ request[r].to = u
    /\ Start(h, u, request[r].from, r, "rejected", "decide")
    /\ UNCHANGED tables

CancelRequest(h, u, r) ==
    /\ request[r].status = "pending"
    /\ request[r].from = u
    /\ Start(h, u, request[r].to, r, "cancelled", "decide")
    /\ UNCHANGED tables

(* setRequestStatus: by id, whatever the status is by now. *)
SetRequestStatus(h) ==
    LET r == job[h].rid IN
    /\ pc[h] = "decide"
    /\ Unhindered(h)
    /\ request' = [request EXCEPT ![r] =
          [status |-> job[h].verdict, from |-> request[r].from,
           to |-> request[r].to]]
    /\ recent' = IF job[h].verdict = "rejected" THEN recent \cup {r} ELSE recent
    /\ Finish(h)
    /\ UNCHANGED <<friend, blocks>>

RemoveFriend(h, u, v) ==
    /\ Friends(u, v)
    /\ Start(h, u, v, NoHandler, "accepted", "remove")
    /\ UNCHANGED tables

(* Variant: the row is deleted. *)
SoftDelete_DropsRow(h) ==
    /\ pc[h] = "remove"
    /\ Unhindered(h)
    /\ friend' = [p \in DOMAIN friend \ {{job[h].user, job[h].other}} |->
                     friend[p]]
    /\ Finish(h)
    /\ UNCHANGED <<request, recent, blocks>>

(* softDeleteFriendship: by id, whatever became of the friendship. *)
SoftDelete(h) ==
    /\ pc[h] = "remove"
    /\ Unhindered(h)
    /\ friend' = [friend EXCEPT ![{job[h].user, job[h].other}] = "removed"]
    /\ Finish(h)
    /\ UNCHANGED <<request, recent, blocks>>

(* The users are resolved. *)
Block(h, u, v) ==
    /\ <<u, v>> \in MayBlock
    /\ Start(h, u, v, NoHandler, "cancelled", "sever")
    /\ UNCHANGED tables

(* The first two statements: the block's row, unless it is there, and the  *)
(* end of the friendship, if it is active.                                 *)
BlockSever(h) ==
    /\ pc[h] = "sever"
    /\ Unhindered(h)
    /\ Goto(h, "cancel")
    /\ job' = [job EXCEPT ![h] = [@ EXCEPT
                  !.made = {<<job[h].user, job[h].other>>} \ blocks,
                  !.seen = friend[{job[h].user, job[h].other}]]]
    /\ UNCHANGED tables

(* Variant: the update lacks its WHERE status = 'pending'. *)
BlockCancel_All(h) ==
    LET pair == {job[h].user, job[h].other}
        all == {r \in Handlers : /\ request[r].status # "none"
                                 /\ {request[r].from, request[r].to} = pair}
    IN
    /\ pc[h] = "cancel"
    /\ \A r \in all, g \in Handlers : ~HoldsRow(g, r)
    /\ Goto(h, "seal")
    /\ job' = [job EXCEPT ![h].rows = all]
    /\ UNCHANGED tables

(* The pending requests in both directions. *)
BlockCancel(h) ==
    /\ pc[h] = "cancel"
    /\ Unhindered(h)
    /\ Goto(h, "seal")
    /\ job' = [job EXCEPT ![h].rows =
                  Pending(job[h].user, job[h].other)
                     \cup Pending(job[h].other, job[h].user)]
    /\ UNCHANGED tables

BlockCommit(h) ==
    /\ pc[h] = "seal"
    /\ blocks' = blocks \cup job[h].made
    /\ friend' = IF job[h].seen # "active" THEN friend
                 ELSE [friend EXCEPT ![{job[h].user, job[h].other}] = "removed"]
    /\ request' = [r \in Handlers |->
                     IF r \in job[h].rows
                     THEN [status |-> "cancelled", from |-> request[r].from,
                           to |-> request[r].to]
                     ELSE request[r]]
    /\ Finish(h)
    /\ UNCHANGED recent

(* A block holds the friendship and waits for a request, an accept holds   *)
(* the request and waits for the friendship: PostgreSQL ends either, its   *)
(* transaction is rolled back and the call answered with an error.         *)
BreakDeadlock(h) ==
    /\ \E g \in Handlers : WaitsFor(h, g) /\ WaitsFor(g, h)
    /\ Finish(h)
    /\ UNCHANGED tables

Unblock(u, v) ==
    /\ blocks' = blocks \ {<<u, v>>}
    /\ UNCHANGED <<pc, job, request, recent, friend>>

(* REJECTION_COOLDOWN_MS pass since r was rejected. *)
CooldownEnds(r) ==
    /\ r \in recent
    /\ recent' = recent \ {r}
    /\ UNCHANGED <<pc, job, request, friend, blocks>>

-----------------------------------------------------------------------------
Step(h) ==
    \/ SendCheckFriends(h) \/ SendFindPending(h) \/ SendCheckLimits(h)
    \/ SendCheckCap(h) \/ SendInsert(h) \/ AcceptCheckBlock(h)
    \/ AcceptBegin(h) \/ AcceptCommit(h) \/ SetRequestStatus(h) \/ SoftDelete(h)
    \/ BlockSever(h) \/ BlockCancel(h) \/ BlockCommit(h) \/ BreakDeadlock(h)

Call(h) ==
    \/ \E u, v \in Users :
          SendRequest(h, u, v) \/ RemoveFriend(h, u, v) \/ Block(h, u, v)
    \/ \E u \in Users, r \in Handlers :
          AcceptRequest(h, u, r) \/ RejectRequest(h, u, r) \/ CancelRequest(h, u, r)

Next ==
    \/ \E h \in Handlers : Step(h) \/ Call(h) \/ CooldownEnds(h)
    \/ \E p \in MayBlock : Unblock(p[1], p[2])

Spec == Init /\ [][Next]_vars

(* PostgreSQL answers every statement, grants a lock that stays free and   *)
(* ends a deadlock.                                                        *)
Fairness == \A h \in Handlers : WF_vars(Step(h))

FairSpec == Spec /\ Fairness

-----------------------------------------------------------------------------
(* Properties *)

(* Every variable has its type. *)
TypeOK ==
    /\ pc \in [Handlers -> PC]
    /\ job \in [Handlers -> Job]
    /\ request \in [Handlers -> Request]
    /\ recent \subseteq Handlers
    /\ friend \in [Pairs -> {"none", "active", "removed"}]
    /\ blocks \subseteq Users \X Users

(* Two users become friends only when one of them, by accepting or by      *)
(* asking back, answers a request that the other one sent.                 *)
Answers(h, u, v) ==
    /\ pc[h] = "commit"
    /\ {u, v} = {job[h].user, job[h].other}
    /\ request[job[h].rid].from = job[h].other
    /\ request[job[h].rid].to = job[h].user
    /\ request'[job[h].rid].status = "accepted"

FriendsByConsent ==
    [][\A u, v \in Users :
          ~Friends(u, v) /\ Friends(u, v)' => \E h \in Handlers : Answers(h, u, v)]_vars

(* A block is final for everything that had not passed its block check     *)
(* when it was made: from the moment no such call is under way the pair    *)
(* gains no friendship, no request, and no call that could bring one.      *)
Admitted(u, v) ==
    \E h \in Handlers :
        /\ {job[h].user, job[h].other} = {u, v}
        /\ pc[h] \in {"friends", "pending", "limits", "cap", "insert",
                      "accept", "commit"}

SealedByBlock ==
    [][\A u, v \in Users :
          Blocked(u, v) /\ ~Admitted(u, v) /\ Blocked(u, v)'
             => /\ ~Admitted(u, v)'
                /\ Friends(u, v)' => Friends(u, v)
                /\ Pending(u, v)' \subseteq Pending(u, v)]_vars

(* The same of the cooldown of sendRequest, whose check is a statement      *)
(* of its own: from the moment no send of u to v is past its checks, u      *)
(* sends v nothing while the cooldown of a rejection lasts.                 *)
Sending(u, v, where) ==
    \E h \in Handlers : job[h].user = u /\ job[h].other = v /\ pc[h] \in where

CooldownSeals ==
    [][\A u, v \in Users :
          /\ CoolingDown(u, v) /\ CoolingDown(u, v)'
          /\ ~Sending(u, v, {"cap", "insert"})
          => /\ ~Sending(u, v, {"cap", "insert"})'
             /\ Pending(u, v)' \subseteq Pending(u, v)]_vars

(* Sends that overlap may each count the others' requests as not there:    *)
(* the cap is overrun, but by no more than the sends that are past their   *)
(* count together, less the one that was entitled to pass.                 *)
Counted(u) == {h \in Handlers : pc[h] = "insert" /\ job[h].user = u}

CapBounded ==
    [](\A u \in Users : Cardinality(Counted(u)) <= Overlap)
       => [](\A u \in Users : Cardinality(Outgoing(u)) < MaxPending + Overlap)

(* A decision may overwrite another one, because the status is written by   *)
(* id; but only by calls that read the request as pending: once none of     *)
(* them is under way, a decided request keeps its decision.                 *)
Deciding(r) ==
    \E h \in Handlers :
        \/ pc[h] \in {"block_check", "accept", "decide"} /\ job[h].rid = r
        \/ pc[h] \in {"commit", "seal"} /\ r \in job[h].rows

DecisionsSettle ==
    [][\A r \in Handlers :
          request[r].status \in {"accepted", "rejected", "cancelled"} /\ ~Deciding(r)
             => ~Deciding(r)' /\ request'[r] = request[r]]_vars

(* Every call is answered, whichever rows the calls hold and wait for: each *)
(* of the finitely many handlers is used once, so it is enough that none    *)
(* stays under way for good.                                                *)
CallsAnswered == []<>(\A h \in Handlers : pc[h] \in {"idle", "done"})

-----------------------------------------------------------------------------
(* What a comment says and the code does not do: refuted by the run that   *)
(* checks it.                                                              *)

(* friendRepository.ts: accepting also resolves the reverse request.       *)
FriendsOweNothing ==
    [][\A h \in Handlers, u, v \in Users :
          /\ AcceptCommit(h)
          /\ job[h].user = u
          /\ job[h].other = v
          /\ Friends(u, v)'
          => Pending(u, v)' = {}]_vars
=============================================================================
