---------------------------- MODULE FriendsProofs ----------------------------
(***************************************************************************)
(* Proofs about Friends, for any users, calls, privacy settings and cap.   *)
(* FriendInv adds to the types what a call knows of the request it acts    *)
(* upon: its two parties never change, and they are the call's own.        *)
(***************************************************************************)
EXTENDS Friends, FiniteSetTheorems, TLAPS

USE FriendsAssumption DEF FriendsAssumption

(* What a call at l with locals x relies on, given the request table t. *)
JobOK(l, x, t) ==
    /\ l \notin {"idle", "done"} => /\ x.user \in Users
                                    /\ x.other \in Users
                                    /\ x.user # x.other
    /\ l \in {"block_check", "accept", "commit"} =>
          /\ x.rid \in Handlers
          /\ t[x.rid].status # "none"
          /\ t[x.rid].from = x.other
          /\ t[x.rid].to = x.user
    /\ l = "decide" => x.rid \in Handlers /\ t[x.rid].status # "none"
    /\ l = "commit" => x.rid \in x.rows
    /\ l \in {"commit", "seal"} => \A r \in x.rows : t[r].status # "none"

JobsOK == \A h \in Handlers : JobOK(pc[h], job[h], request)

(* A request row appears only when the call that makes it ends. *)
RequestsOK ==
    /\ \A h \in Handlers : pc[h] # "done" => request[h].status = "none"
    /\ \A r \in Handlers : request[r].status # "none" =>
          request[r].from \in Users /\ request[r].to \in Users

FriendInv == TypeOK /\ JobsOK /\ RequestsOK

(* Rows that exist keep their parties; the only new one is h's, as h ends. *)
Decides(h, l) ==
    \A r \in Handlers :
        \/ request'[r] = request[r]
        \/ /\ request[r].status # "none"
           /\ request'[r].status \in {"accepted", "rejected", "cancelled"}
           /\ request'[r].from = request[r].from
           /\ request'[r].to = request[r].to
        \/ /\ r = h
           /\ l = "done"
           /\ request[r].status = "none"
           /\ request'[r].from \in Users
           /\ request'[r].to \in Users

-----------------------------------------------------------------------------
LEMMA NoJobType == NoJob \in Job
  BY DEF NoJob, Job

LEMMA PairType == ASSUME NEW u \in Users, NEW v \in Users PROVE {u, v} \in Pairs
  <1>1. <<u, v>> \in Users \X Users /\ {<<u, v>>[1], <<u, v>>[2]} = {u, v}
    OBVIOUS
  <1>2. QED
    BY <1>1 DEF Pairs

(* A call moves to l with locals x; its knowledge, and that of the others, *)
(* outlives what it does to the requests.                                  *)
LEMMA MoveJobs ==
    ASSUME FriendInv, NEW h \in Handlers, NEW l \in PC, NEW x \in Job,
           Goto(h, l), job' = [job EXCEPT ![h] = x],
           pc[h] # "done", Decides(h, l), JobOK(l, x, request)
    PROVE  /\ pc' \in [Handlers -> PC]
           /\ job' \in [Handlers -> Job]
           /\ JobsOK' /\ RequestsOK'
  <1> USE DEF FriendInv, TypeOK
  <1>1. pc' \in [Handlers -> PC] /\ job' \in [Handlers -> Job]
    BY DEF Goto
  <1>2. \A q \in Handlers : pc'[q] = IF q = h THEN l ELSE pc[q]
    BY DEF Goto
  <1>3. \A q \in Handlers : job'[q] = IF q = h THEN x ELSE job[q]
    OBVIOUS
  <1>4. \A q \in Handlers : JobOK(pc'[q], job'[q], request)
    BY <1>2, <1>3 DEF JobsOK
  <1>5. \A r \in Handlers : request[r].status # "none" =>
            /\ request'[r].status # "none"
            /\ request'[r].from = request[r].from
            /\ request'[r].to = request[r].to
    BY DEF Decides
  <1>6. ASSUME NEW q \in Handlers PROVE JobOK(pc'[q], job'[q], request')
    <2>1. job'[q].rows \subseteq Handlers
      BY <1>1 DEF Job
    <2>2. QED
      BY <1>4, <1>5, <2>1 DEF JobOK
  <1>7. JobsOK'
    BY <1>6 DEF JobsOK
  <1>8. RequestsOK'
    BY <1>2 DEF RequestsOK, Decides
  <1>9. QED
    BY <1>1, <1>7, <1>8

(* The same for a call that ends. *)
LEMMA FinishJobs ==
    ASSUME FriendInv, NEW h \in Handlers, Finish(h), pc[h] # "done",
           Decides(h, "done")
    PROVE  /\ pc' \in [Handlers -> PC]
           /\ job' \in [Handlers -> Job]
           /\ JobsOK' /\ RequestsOK'
  <1>1. "done" \in PC /\ JobOK("done", NoJob, request)
    BY DEF PC, JobOK
  <1>2. Goto(h, "done") /\ job' = [job EXCEPT ![h] = NoJob]
    BY DEF Finish
  <1> HIDE DEF FriendsAssumption
  <1>3. QED
    BY <1>1, <1>2, MoveJobs, NoJobType

(* The same for a call that moves and changes no table and no locals. *)
LEMMA KeepJobs ==
    ASSUME FriendInv, NEW h \in Handlers, NEW l \in PC, Goto(h, l),
           UNCHANGED <<job, tables>>, pc[h] # "done",
           JobOK(l, job[h], request)
    PROVE  FriendInv'
  <1>1. job[h] \in Job /\ job' = [job EXCEPT ![h] = job[h]] /\ request' = request
    BY DEF FriendInv, TypeOK, tables
  <1>2. Decides(h, l)
    BY <1>1 DEF Decides
  <1>3. pc' \in [Handlers -> PC] /\ job' \in [Handlers -> Job] /\ JobsOK' /\ RequestsOK'
    BY <1>1, <1>2, MoveJobs
  <1>4. QED
    BY <1>3 DEF FriendInv, TypeOK, tables

LEMMA LeaveJobs ==
    ASSUME FriendInv, NEW h \in Handlers, Finish(h), UNCHANGED tables,
           pc[h] # "done"
    PROVE  FriendInv'
  <1>1. Decides(h, "done")
    BY DEF Decides, tables
  <1>2. pc' \in [Handlers -> PC] /\ job' \in [Handlers -> Job] /\ JobsOK' /\ RequestsOK'
    BY <1>1, FinishJobs
  <1>3. QED
    BY <1>2 DEF FriendInv, TypeOK, tables

LEMMA StartJobs ==
    ASSUME FriendInv, NEW h \in Handlers, NEW l \in PC,
           NEW x \in Job, Goto(h, l), job' = [job EXCEPT ![h] = x],
           pc[h] # "done", UNCHANGED tables, JobOK(l, x, request)
    PROVE  FriendInv'
  <1>1. Decides(h, l)
    BY DEF Decides, tables
  <1>2. pc' \in [Handlers -> PC] /\ job' \in [Handlers -> Job] /\ JobsOK' /\ RequestsOK'
    BY <1>1, MoveJobs
  <1>3. QED
    BY <1>2 DEF FriendInv, TypeOK, tables

-----------------------------------------------------------------------------
(* FriendInv, action by action.  What a call at l knows, in usable form.   *)
LEMMA Knows ==
    ASSUME FriendInv, NEW h \in Handlers
    PROVE  /\ pc[h] \in PC /\ job[h] \in Job
           /\ JobOK(pc[h], job[h], request)
  BY DEF FriendInv, TypeOK, JobsOK

LEMMA SendSteps ==
    ASSUME FriendInv, NEW h \in Handlers,
           \/ SendCheckFriends(h) \/ SendCheckLimits(h) \/ SendCheckCap(h)
           \/ AcceptCheckBlock(h)
    PROVE  FriendInv'
  <1>1. JobOK(pc[h], job[h], request)
    BY Knows
  <1>2. CASE SendCheckFriends(h)
    <2>1. "pending" \in PC /\ pc[h] # "done" /\ JobOK("pending", job[h], request)
      BY <1>1, <1>2 DEF PC, JobOK, SendCheckFriends
    <2>2. QED
      BY <1>2, <2>1, KeepJobs, LeaveJobs DEF SendCheckFriends, tables
  <1>3. CASE SendCheckLimits(h)
    <2>1. "cap" \in PC /\ pc[h] # "done" /\ JobOK("cap", job[h], request)
      BY <1>1, <1>3 DEF PC, JobOK, SendCheckLimits
    <2>2. QED
      BY <1>3, <2>1, KeepJobs, LeaveJobs DEF SendCheckLimits, tables
  <1>4. CASE SendCheckCap(h)
    <2>1. "insert" \in PC /\ pc[h] # "done" /\ JobOK("insert", job[h], request)
      BY <1>1, <1>4 DEF PC, JobOK, SendCheckCap
    <2>2. QED
      BY <1>4, <2>1, KeepJobs, LeaveJobs DEF SendCheckCap, tables
  <1>5. CASE AcceptCheckBlock(h)
    <2>1. "accept" \in PC /\ pc[h] # "done" /\ JobOK("accept", job[h], request)
      BY <1>1, <1>5 DEF PC, JobOK, AcceptCheckBlock
    <2>2. QED
      BY <1>5, <2>1, KeepJobs, LeaveJobs DEF AcceptCheckBlock, tables
  <1>6. QED
    BY <1>2, <1>3, <1>4, <1>5

LEMMA FindPendingStep ==
    ASSUME FriendInv, NEW h \in Handlers, SendFindPending(h)
    PROVE  FriendInv'
  <1>1. JobOK("pending", job[h], request) /\ pc[h] = "pending" /\ job[h] \in Job
    BY Knows DEF SendFindPending
  <1>2. "limits" \in PC /\ "accept" \in PC /\ JobOK("limits", job[h], request)
    BY <1>1 DEF PC, JobOK
  <1>3. CASE Goto(h, "limits") /\ UNCHANGED <<job, tables>>
    BY <1>1, <1>2, <1>3, KeepJobs
  <1>4. CASE Finish(h) /\ UNCHANGED tables
    BY <1>1, <1>4, LeaveJobs
  <1>5. ASSUME NEW r \in Pending(job[h].other, job[h].user),
               Goto(h, "accept"), job' = [job EXCEPT ![h].rid = r],
               UNCHANGED tables
        PROVE  FriendInv'
    <2> DEFINE x == [job[h] EXCEPT !.rid = r]
    <2>1. r \in Handlers /\ x \in Job /\ job' = [job EXCEPT ![h] = x]
      BY <1>1, <1>5 DEF Pending, Job, FriendInv, TypeOK
    <2>2. JobOK("accept", x, request)
      BY <1>1, <1>5, <2>1 DEF JobOK, Pending, Job
    <2> HIDE DEF x
    <2>3. QED
      BY <1>1, <1>2, <1>5, <2>1, <2>2, StartJobs
  <1>6. QED
    BY <1>3, <1>4, <1>5 DEF SendFindPending, tables

LEMMA InsertStep ==
    ASSUME FriendInv, NEW h \in Handlers, SendInsert(h)
    PROVE  FriendInv'
  <1>1. /\ JobOK("insert", job[h], request)
        /\ pc[h] = "insert" /\ Finish(h) /\ UNCHANGED <<recent, friend, blocks>>
    BY Knows DEF SendInsert
  <1>2. request[h].status = "none" /\ job[h].user \in Users /\ job[h].other \in Users
    BY <1>1 DEF JobOK, FriendInv, RequestsOK
  <1>3. Decides(h, "done") /\ request' \in [Handlers -> Request]
    BY <1>2 DEF SendInsert, Decides, FriendInv, TypeOK, Request
  <1>4. QED
    BY <1>1, <1>3, FinishJobs DEF FriendInv, TypeOK

LEMMA AcceptBeginStep ==
    ASSUME FriendInv, NEW h \in Handlers, AcceptBegin(h)
    PROVE  FriendInv'
  <1> DEFINE rows == {job[h].rid} \cup Pending(job[h].other, job[h].user)
             x == [job[h] EXCEPT !.rows = rows,
                      !.seen = friend[{job[h].user, job[h].other}]]
  <1>1. JobOK("accept", job[h], request) /\ pc[h] = "accept" /\ job[h] \in Job
    BY Knows DEF AcceptBegin
  <1>2. Goto(h, "commit") /\ job' = [job EXCEPT ![h] = x] /\ UNCHANGED tables
    BY DEF AcceptBegin
  <1>3. {job[h].user, job[h].other} \in Pairs
    BY <1>1, PairType DEF JobOK
  <1>4. rows \subseteq Handlers /\ \A r \in rows : request[r].status # "none"
    BY <1>1 DEF JobOK, Pending
  <1>5. friend[{job[h].user, job[h].other}] \in {"none", "active", "removed"}
    BY <1>3 DEF FriendInv, TypeOK
  <1>6. x \in Job /\ "commit" \in PC
    BY <1>1, <1>4, <1>5 DEF Job, PC
  <1>7. JobOK("commit", x, request)
    BY <1>1, <1>4 DEF JobOK, Job
  <1> HIDE DEF x
  <1>8. QED
    BY <1>1, <1>2, <1>6, <1>7, StartJobs

LEMMA AcceptCommitStep ==
    ASSUME FriendInv, NEW h \in Handlers, AcceptCommit(h)
    PROVE  FriendInv'
  <1>1. JobOK("commit", job[h], request) /\ pc[h] = "commit" /\ job[h] \in Job
    BY Knows DEF AcceptCommit
  <1>2. Finish(h) /\ UNCHANGED <<recent, blocks>>
    BY DEF AcceptCommit
  <1>3. Decides(h, "done") /\ request' \in [Handlers -> Request]
    BY <1>1 DEF AcceptCommit, Decides, JobOK, FriendInv, TypeOK, Request
  <1>4. friend' \in [Pairs -> {"none", "active", "removed"}]
    BY DEF AcceptCommit, FriendInv, TypeOK
  <1>5. QED
    BY <1>1, <1>2, <1>3, <1>4, FinishJobs DEF FriendInv, TypeOK

LEMMA StatusStep ==
    ASSUME FriendInv, NEW h \in Handlers, SetRequestStatus(h)
    PROVE  FriendInv'
  <1>1. JobOK("decide", job[h], request) /\ pc[h] = "decide" /\ job[h] \in Job
    BY Knows DEF SetRequestStatus
  <1>2. Finish(h) /\ UNCHANGED <<friend, blocks>>
    BY DEF SetRequestStatus
  <1>3. Decides(h, "done") /\ request' \in [Handlers -> Request]
    BY <1>1 DEF SetRequestStatus, Decides, JobOK, FriendInv, TypeOK, Request, Job
  <1>4. recent' \subseteq Handlers
    BY <1>1 DEF SetRequestStatus, FriendInv, TypeOK, JobOK
  <1>5. QED
    BY <1>1, <1>2, <1>3, <1>4, FinishJobs DEF FriendInv, TypeOK

LEMMA SoftDeleteStep ==
    ASSUME FriendInv, NEW h \in Handlers, SoftDelete(h)
    PROVE  FriendInv'
  <1>1. pc[h] = "remove" /\ Finish(h) /\ UNCHANGED <<request, recent, blocks>>
    BY DEF SoftDelete
  <1>2. Decides(h, "done")
    BY <1>1 DEF Decides
  <1>3. friend' \in [Pairs -> {"none", "active", "removed"}]
    BY DEF SoftDelete, FriendInv, TypeOK
  <1>4. QED
    BY <1>1, <1>2, <1>3, FinishJobs DEF FriendInv, TypeOK

LEMMA StartStep ==
    ASSUME FriendInv, NEW h \in Handlers, NEW u \in Users, NEW v \in Users,
           NEW r \in Handlers \cup {NoHandler},
           NEW verdict \in {"accepted", "rejected", "cancelled"},
           NEW l \in PC \ {"commit", "seal"},
           Start(h, u, v, r, verdict, l), UNCHANGED tables,
           l \in {"block_check", "accept"} =>
              r \in Handlers /\ request[r].from = v /\ request[r].to = u,
           l \in {"block_check", "accept", "decide"} =>
              r \in Handlers /\ request[r].status # "none"
    PROVE  FriendInv'
  <1> DEFINE x == [user |-> u, other |-> v, rid |-> r, verdict |-> verdict,
                   seen |-> "none", rows |-> {}, made |-> {}]
  <1>1. Goto(h, l) /\ job' = [job EXCEPT ![h] = x] /\ pc[h] # "done" /\ u # v
    BY DEF Start
  <1>2. x \in Job /\ l \in PC
    BY DEF Job
  <1>3. JobOK(l, x, request)
    BY <1>1 DEF JobOK
  <1> HIDE DEF x
  <1>4. QED
    BY <1>1, <1>2, <1>3, StartJobs

LEMMA CallSteps ==
    ASSUME FriendInv, NEW h \in Handlers, Call(h)
    PROVE  FriendInv'
  <1> USE DEF FriendInv, TypeOK
  <1>0. {"friends", "remove", "block_check", "decide", "sever"}
           \subseteq PC \ {"commit", "seal"}
    BY DEF PC
  <1>1. ASSUME NEW u \in Users, NEW v \in Users, SendRequest(h, u, v)
        PROVE  FriendInv'
    BY <1>0, <1>1, StartStep DEF SendRequest
  <1>2. ASSUME NEW u \in Users, NEW v \in Users, RemoveFriend(h, u, v)
        PROVE  FriendInv'
    BY <1>0, <1>2, StartStep DEF RemoveFriend
  <1>7. ASSUME NEW u \in Users, NEW v \in Users, Block(h, u, v)
        PROVE  FriendInv'
    BY <1>0, <1>7, StartStep DEF Block
  <1>3. ASSUME NEW r \in Handlers, request[r].status = "pending"
        PROVE  request[r].from \in Users /\ request[r].to \in Users
    BY <1>3 DEF RequestsOK
  <1>4. ASSUME NEW u \in Users, NEW r \in Handlers, AcceptRequest(h, u, r)
        PROVE  FriendInv'
    <2>1. PICK v \in Users : v = request[r].from
      BY <1>3, <1>4 DEF AcceptRequest
    <2>2. /\ Start(h, u, v, r, "accepted", "block_check") /\ UNCHANGED tables
          /\ request[r].status # "none" /\ request[r].to = u
      BY <1>4, <2>1 DEF AcceptRequest
    <2>3. QED
      BY <1>0, <2>1, <2>2, StartStep
  <1>5. ASSUME NEW u \in Users, NEW r \in Handlers, RejectRequest(h, u, r)
        PROVE  FriendInv'
    <2>1. PICK v \in Users : v = request[r].from
      BY <1>3, <1>5 DEF RejectRequest
    <2>2. /\ Start(h, u, v, r, "rejected", "decide") /\ UNCHANGED tables
          /\ request[r].status # "none"
      BY <1>5, <2>1 DEF RejectRequest
    <2>3. QED
      BY <1>0, <2>1, <2>2, StartStep
  <1>6. ASSUME NEW u \in Users, NEW r \in Handlers, CancelRequest(h, u, r)
        PROVE  FriendInv'
    <2>1. PICK v \in Users : v = request[r].to
      BY <1>3, <1>6 DEF CancelRequest
    <2>2. /\ Start(h, u, v, r, "cancelled", "decide") /\ UNCHANGED tables
          /\ request[r].status # "none"
      BY <1>6, <2>1 DEF CancelRequest
    <2>3. QED
      BY <1>0, <2>1, <2>2, StartStep
  <1>8. QED
    BY <1>1, <1>2, <1>4, <1>5, <1>6, <1>7 DEF Call

LEMMA BlockSeverStep ==
    ASSUME FriendInv, NEW h \in Handlers, BlockSever(h)
    PROVE  FriendInv'
  <1> DEFINE x == [job[h] EXCEPT
                      !.made = {<<job[h].user, job[h].other>>} \ blocks,
                      !.seen = friend[{job[h].user, job[h].other}]]
  <1>1. JobOK("sever", job[h], request) /\ pc[h] = "sever" /\ job[h] \in Job
    BY Knows DEF BlockSever
  <1>2. Goto(h, "cancel") /\ job' = [job EXCEPT ![h] = x] /\ UNCHANGED tables
    BY DEF BlockSever
  <1>3. {job[h].user, job[h].other} \in Pairs
    BY <1>1, PairType DEF JobOK
  <1>4. friend[{job[h].user, job[h].other}] \in {"none", "active", "removed"}
    BY <1>3 DEF FriendInv, TypeOK
  <1>5. {<<job[h].user, job[h].other>>} \ blocks \in SUBSET (Users \X Users)
    BY <1>1 DEF JobOK
  <1>6. x \in Job /\ "cancel" \in PC
    BY <1>1, <1>4, <1>5 DEF Job, PC
  <1>7. JobOK("cancel", x, request)
    BY <1>1 DEF JobOK, Job
  <1> HIDE DEF x
  <1>8. QED
    BY <1>1, <1>2, <1>6, <1>7, StartJobs

LEMMA BlockCancelStep ==
    ASSUME FriendInv, NEW h \in Handlers, BlockCancel(h)
    PROVE  FriendInv'
  <1> DEFINE rows == Pending(job[h].user, job[h].other)
                        \cup Pending(job[h].other, job[h].user)
             x == [job[h] EXCEPT !.rows = rows]
  <1>1. JobOK("cancel", job[h], request) /\ pc[h] = "cancel" /\ job[h] \in Job
    BY Knows DEF BlockCancel
  <1>2. Goto(h, "seal") /\ job' = [job EXCEPT ![h] = x] /\ UNCHANGED tables
    BY DEF BlockCancel, FriendInv, TypeOK
  <1>3. rows \subseteq Handlers /\ \A r \in rows : request[r].status # "none"
    BY DEF Pending
  <1>4. x \in Job /\ "seal" \in PC
    BY <1>1, <1>3 DEF Job, PC
  <1>5. JobOK("seal", x, request)
    BY <1>1, <1>3 DEF JobOK, Job
  <1> HIDE DEF x
  <1>6. QED
    BY <1>1, <1>2, <1>4, <1>5, StartJobs

LEMMA BlockCommitStep ==
    ASSUME FriendInv, NEW h \in Handlers, BlockCommit(h)
    PROVE  FriendInv'
  <1>1. JobOK("seal", job[h], request) /\ pc[h] = "seal" /\ job[h] \in Job
    BY Knows DEF BlockCommit
  <1>2. Finish(h) /\ UNCHANGED recent
    BY DEF BlockCommit
  <1>3. Decides(h, "done") /\ request' \in [Handlers -> Request]
    BY <1>1 DEF BlockCommit, Decides, JobOK, FriendInv, TypeOK, Request
  <1>4. friend' \in [Pairs -> {"none", "active", "removed"}]
    BY DEF BlockCommit, FriendInv, TypeOK
  <1>5. blocks' \subseteq Users \X Users
    BY <1>1 DEF BlockCommit, FriendInv, TypeOK, Job
  <1>6. QED
    BY <1>1, <1>2, <1>3, <1>4, <1>5, FinishJobs DEF FriendInv, TypeOK

LEMMA DeadlockStep ==
    ASSUME FriendInv, NEW h \in Handlers, BreakDeadlock(h)
    PROVE  FriendInv'
  <1>1. Finish(h) /\ UNCHANGED tables /\ pc[h] # "done"
    BY DEF BreakDeadlock, WaitsFor, WantsRow, WantsFriendship
  <1>2. QED
    BY <1>1, LeaveJobs

LEMMA OtherSteps ==
    ASSUME FriendInv,
           \/ UNCHANGED vars
           \/ \E h \in Handlers : CooldownEnds(h)
           \/ \E p \in MayBlock : Unblock(p[1], p[2])
    PROVE  FriendInv'
  <1>1. /\ UNCHANGED <<pc, job, request, friend>>
        /\ recent' \subseteq recent /\ blocks' \subseteq blocks
    BY DEF vars, tables, CooldownEnds, Unblock
  <1>2. QED
    BY <1>1 DEF FriendInv, TypeOK, JobsOK, RequestsOK, JobOK

LEMMA InitOK == Init => FriendInv
  <1> SUFFICES ASSUME Init PROVE FriendInv
    OBVIOUS
  <1>1. TypeOK
    BY NoJobType DEF Init, TypeOK, PC, NoRequest, Request
  <1>2. JobsOK /\ RequestsOK
    BY DEF Init, JobsOK, JobOK, RequestsOK, NoRequest
  <1>3. QED
    BY <1>1, <1>2 DEF FriendInv

LEMMA NextOK == FriendInv /\ [Next]_vars => FriendInv'
  <1> SUFFICES ASSUME FriendInv, [Next]_vars PROVE FriendInv'
    OBVIOUS
  <1>1. ASSUME NEW h \in Handlers, Step(h) PROVE FriendInv'
    BY <1>1, SendSteps, FindPendingStep, InsertStep, AcceptBeginStep,
       AcceptCommitStep, StatusStep, SoftDeleteStep, BlockSeverStep,
       BlockCancelStep, BlockCommitStep, DeadlockStep DEF Step
  <1>2. QED
    BY <1>1, CallSteps, OtherSteps DEF Next

(* Whatever the calls do to each other's rows, each still acts upon the    *)
(* request it looked up, between the two users it looked it up for.        *)
THEOREM FriendInvariant == Spec => []FriendInv
  <1>1. QED
    BY InitOK, NextOK, PTL DEF Spec

(* Every variable of friendService's model keeps its type. *)
THEOREM FriendsTypeSafe == Spec => []TypeOK
  <1>1. FriendInv => TypeOK
    BY DEF FriendInv
  <1>2. QED
    BY <1>1, FriendInvariant, PTL

-----------------------------------------------------------------------------
(* Only AcceptCommit makes friends, only SendInsert makes a request.       *)
LEMMA FriendsOnlyByCommit ==
    ASSUME FriendInv, [Next]_vars, NEW u \in Users, NEW v \in Users,
           ~Friends(u, v), Friends(u, v)'
    PROVE  \E h \in Handlers :
              /\ AcceptCommit(h)
              /\ {u, v} = {job[h].user, job[h].other}
              /\ request'[job[h].rid].status = "accepted"
  <1> USE DEF FriendInv, TypeOK, Friends
  <1>1. {u, v} \in Pairs
    BY PairType
  <1>2. ASSUME friend' = friend PROVE FALSE
    BY <1>2
  <1>3. ASSUME NEW h \in Handlers, SoftDelete(h) PROVE FALSE
    BY <1>1, <1>3 DEF SoftDelete
  <1>4. ASSUME NEW h \in Handlers, BlockCommit(h) PROVE FALSE
    BY <1>1, <1>4 DEF BlockCommit
  <1>5. ASSUME NEW h \in Handlers, AcceptCommit(h)
        PROVE  /\ {u, v} = {job[h].user, job[h].other}
               /\ request'[job[h].rid].status = "accepted"
    <2>1. JobOK("commit", job[h], request)
      BY <1>5, Knows DEF AcceptCommit
    <2>2. friend[{u, v}] # "active" /\ friend'[{u, v}] = "active"
      OBVIOUS
    <2>3. friend' # friend
      BY <2>2
    <2>4. /\ friend' = [friend EXCEPT ![{job[h].user, job[h].other}] = "active"]
          /\ request' = [r \in Handlers |->
                           IF r \in job[h].rows
                           THEN [status |-> "accepted",
                                 from |-> request[r].from,
                                 to |-> request[r].to]
                           ELSE request[r]]
      BY <1>5, <2>3 DEF AcceptCommit
    <2>5. PICK q \in Pairs : q = {job[h].user, job[h].other}
      BY <1>5, <2>1, PairType DEF JobOK, AcceptCommit
    <2>6. friend' = [friend EXCEPT ![q] = "active"]
      BY <2>4, <2>5
    <2>7. {u, v} = q
      BY <1>1, <2>2, <2>6
    <2>8. request'[job[h].rid].status = "accepted"
      BY <2>1, <2>4 DEF JobOK
    <2>9. QED
      BY <2>5, <2>7, <2>8
  <1>6. ASSUME NEW h \in Handlers, Step(h), ~AcceptCommit(h), ~SoftDelete(h),
               ~BlockCommit(h)
        PROVE  friend' = friend
    BY <1>6 DEF Step, SendCheckFriends, SendFindPending, SendCheckLimits,
       SendCheckCap, SendInsert, AcceptCheckBlock, AcceptBegin,
       SetRequestStatus, BlockSever, BlockCancel, BreakDeadlock, tables
  <1>7. ASSUME NEW h \in Handlers, Call(h) \/ CooldownEnds(h)
        PROVE  friend' = friend
    BY <1>7 DEF Call, SendRequest, RemoveFriend, Block, AcceptRequest,
       RejectRequest, CancelRequest, CooldownEnds, tables
  <1>9. CASE UNCHANGED vars
    BY <1>2, <1>9 DEF vars, tables
  <1>10. CASE \E p \in MayBlock : Unblock(p[1], p[2])
    BY <1>2, <1>10 DEF Unblock
  <1>11. CASE \E h \in Handlers : Step(h) \/ Call(h) \/ CooldownEnds(h)
    BY <1>2, <1>3, <1>4, <1>5, <1>6, <1>7, <1>11
  <1>12. QED
    BY <1>9, <1>10, <1>11 DEF Next

(* Two users become friends only when one of them accepts, or asks back,   *)
(* on a request that the other one sent.                                   *)
THEOREM ConsentCorrect == Spec => FriendsByConsent
  <1>1. ASSUME FriendInv, [Next]_vars, NEW u \in Users, NEW v \in Users,
               ~Friends(u, v), Friends(u, v)'
        PROVE  \E h \in Handlers : Answers(h, u, v)
    <2>1. PICK h \in Handlers :
              /\ AcceptCommit(h)
              /\ {u, v} = {job[h].user, job[h].other}
              /\ request'[job[h].rid].status = "accepted"
      BY <1>1, FriendsOnlyByCommit
    <2>2. JobOK("commit", job[h], request) /\ pc[h] = "commit"
      BY <1>1, <2>1, Knows DEF AcceptCommit
    <2>3. QED
      BY <2>1, <2>2 DEF Answers, JobOK
  <1> DEFINE Consent ==
        \A u, v \in Users :
          ~Friends(u, v) /\ Friends(u, v)' => \E h \in Handlers : Answers(h, u, v)
  <1>2. FriendInv /\ [Next]_vars => [Consent]_vars
    BY <1>1
  <1>3. QED
    BY <1>2, FriendInvariant, PTL DEF Spec, FriendsByConsent

-----------------------------------------------------------------------------
(* Where a call has passed its check for blocks. *)
PastCheck == {"friends", "pending", "limits", "cap", "insert", "accept", "commit"}

(* A step leaves a call of others where it is; it gets past the check only *)
(* when its two users are not blocked.                                     *)
Passes(h) ==
    pc'[h] \in PastCheck =>
        \/ /\ pc[h] \in PastCheck
           /\ job'[h].user = job[h].user
           /\ job'[h].other = job[h].other
        \/ ~Blocked(job'[h].user, job'[h].other)

LEMMA StepPasses ==
    ASSUME FriendInv, NEW h \in Handlers, Step(h)
    PROVE  Passes(h)
  <1> USE DEF FriendInv, TypeOK, Passes, PastCheck
  <1>1. job[h] \in Job
    OBVIOUS
  <1>2. ASSUME Finish(h) PROVE Passes(h)
    BY <1>2 DEF Finish, Goto
  <1>3. ASSUME pc[h] \in PastCheck, UNCHANGED job PROVE Passes(h)
    BY <1>3
  <1>4. CASE SendCheckFriends(h)
    BY <1>2, <1>3, <1>4 DEF SendCheckFriends
  <1>5. CASE SendCheckLimits(h)
    BY <1>2, <1>3, <1>5 DEF SendCheckLimits
  <1>6. CASE SendCheckCap(h)
    BY <1>2, <1>3, <1>6 DEF SendCheckCap
  <1>7. CASE SendFindPending(h)
    BY <1>1, <1>2, <1>3, <1>7 DEF SendFindPending, Job
  <1>8. CASE AcceptCheckBlock(h)
    BY <1>2, <1>8 DEF AcceptCheckBlock
  <1>9. CASE AcceptBegin(h)
    BY <1>1, <1>9 DEF AcceptBegin, Job
  <1>10. CASE SendInsert(h) \/ AcceptCommit(h) \/ SetRequestStatus(h) \/ SoftDelete(h)
    BY <1>2, <1>10 DEF SendInsert, AcceptCommit, SetRequestStatus, SoftDelete
  <1>11. CASE BlockSever(h) \/ BlockCancel(h) \/ BlockCommit(h) \/ BreakDeadlock(h)
    BY <1>2, <1>11 DEF BlockSever, BlockCancel, BlockCommit, BreakDeadlock, Goto
  <1>12. QED
    BY <1>4, <1>5, <1>6, <1>7, <1>8, <1>9, <1>10, <1>11 DEF Step

LEMMA CallPasses ==
    ASSUME FriendInv, NEW h \in Handlers, Call(h)
    PROVE  Passes(h)
  <1> USE DEF FriendInv, TypeOK, Passes, PastCheck
  <1>1. ASSUME NEW u \in Users, NEW v \in Users, SendRequest(h, u, v)
        PROVE  Passes(h)
    BY <1>1 DEF SendRequest, Start, Goto
  <1>2. ASSUME NEW u \in Users, NEW v \in Users, RemoveFriend(h, u, v)
        PROVE  Passes(h)
    BY <1>2 DEF RemoveFriend, Start, Goto
  <1>3. ASSUME NEW u \in Users, NEW r \in Handlers,
               \/ AcceptRequest(h, u, r) \/ RejectRequest(h, u, r)
               \/ CancelRequest(h, u, r)
        PROVE  Passes(h)
    BY <1>3 DEF AcceptRequest, RejectRequest, CancelRequest, Start, Goto
  <1>4. ASSUME NEW u \in Users, NEW v \in Users, Block(h, u, v) PROVE Passes(h)
    BY <1>4 DEF Block, Start, Goto
  <1>5. QED
    BY <1>1, <1>2, <1>3, <1>4 DEF Call

(* A step of one call leaves the others where they are. *)
LEMMA OthersStay ==
    ASSUME FriendInv, NEW h \in Handlers, Step(h) \/ Call(h),
           NEW q \in Handlers, q # h
    PROVE  pc'[q] = pc[q] /\ job'[q] = job[q]
  <1> USE DEF FriendInv, TypeOK, Finish, Goto, Start
  <1>1. CASE Step(h)
    BY <1>1 DEF Step, SendCheckFriends, SendFindPending, SendCheckLimits,
       SendCheckCap, SendInsert, AcceptCheckBlock, AcceptBegin, AcceptCommit,
       SetRequestStatus, SoftDelete, BlockSever, BlockCancel, BlockCommit,
       BreakDeadlock
  <1>2. CASE Call(h)
    BY <1>2 DEF Call, SendRequest, RemoveFriend, Block, AcceptRequest,
       RejectRequest, CancelRequest
  <1>3. QED
    BY <1>1, <1>2

LEMMA NextPasses ==
    ASSUME FriendInv, [Next]_vars, NEW q \in Handlers
    PROVE  Passes(q)
  <1>1. ASSUME pc'[q] = pc[q], job'[q] = job[q] PROVE Passes(q)
    BY <1>1 DEF Passes
  <1>2. CASE UNCHANGED vars
    BY <1>1, <1>2 DEF vars
  <1>3. CASE \E p \in MayBlock : Unblock(p[1], p[2])
    BY <1>1, <1>3 DEF Unblock
  <1>4. CASE \E h \in Handlers : CooldownEnds(h)
    BY <1>1, <1>4 DEF CooldownEnds
  <1>5. ASSUME NEW h \in Handlers, Step(h) \/ Call(h) PROVE Passes(q)
    BY <1>1, <1>5, StepPasses, CallPasses, OthersStay
  <1>6. QED
    BY <1>2, <1>3, <1>4, <1>5 DEF Next

LEMMA PendingOnlyByInsert ==
    ASSUME FriendInv, [Next]_vars, NEW r \in Handlers,
           request'[r].status = "pending", request'[r] # request[r]
    PROVE  /\ pc[r] = "insert"
           /\ request'[r].from = job[r].user
           /\ request'[r].to = job[r].other
  <1> USE DEF FriendInv, TypeOK
  <1>1. ASSUME NEW h \in Handlers, SendInsert(h)
        PROVE  /\ pc[r] = "insert"
               /\ request'[r].from = job[r].user
               /\ request'[r].to = job[r].other
    BY <1>1 DEF SendInsert
  <1>2. ASSUME NEW h \in Handlers, AcceptCommit(h) PROVE FALSE
    BY <1>2 DEF AcceptCommit
  <1>3. ASSUME NEW h \in Handlers, SetRequestStatus(h) PROVE FALSE
    BY <1>3 DEF SetRequestStatus, Job
  <1>4. ASSUME NEW h \in Handlers, BlockCommit(h) PROVE FALSE
    BY <1>4 DEF BlockCommit
  <1>5. request' # request
    OBVIOUS
  <1>6. CASE \E h \in Handlers : Step(h)
    BY <1>1, <1>2, <1>3, <1>4, <1>5, <1>6 DEF Step, SendCheckFriends,
       SendFindPending, SendCheckLimits, SendCheckCap, AcceptCheckBlock,
       AcceptBegin, SoftDelete, BlockSever, BlockCancel, BreakDeadlock, tables
  <1>7. CASE \E h \in Handlers : Call(h) \/ CooldownEnds(h)
    BY <1>5, <1>7 DEF Call, SendRequest, RemoveFriend, Block, AcceptRequest,
       RejectRequest, CancelRequest, CooldownEnds, tables
  <1>8. CASE UNCHANGED vars
    BY <1>5, <1>8 DEF vars, tables
  <1>9. CASE \E p \in MayBlock : Unblock(p[1], p[2])
    BY <1>5, <1>9 DEF Unblock
  <1>10. QED
    BY <1>6, <1>7, <1>8, <1>9 DEF Next

(* Once no call past its check concerns a blocked pair, none ever will     *)
(* while the block stands, and the pair gains no friendship and no request.*)
THEOREM BlockSeals == Spec => SealedByBlock
  <1> DEFINE Sealed(u, v) == /\ ~Admitted(u, v)'
                             /\ Friends(u, v)' => Friends(u, v)
                             /\ Pending(u, v)' \subseteq Pending(u, v)
             Seals == \A u, v \in Users :
                Blocked(u, v) /\ ~Admitted(u, v) /\ Blocked(u, v)'
                   => Sealed(u, v)
  <1>1. ASSUME FriendInv, [Next]_vars, NEW u \in Users, NEW v \in Users,
               Blocked(u, v), ~Admitted(u, v)
        PROVE  Sealed(u, v)
    <2>1. ASSUME NEW h \in Handlers, pc[h] \in PastCheck,
                 {job[h].user, job[h].other} = {u, v}
          PROVE  FALSE
      BY <1>1, <2>1 DEF Admitted, PastCheck
    <2>2. ASSUME NEW h \in Handlers, pc'[h] \in PastCheck,
                 {job'[h].user, job'[h].other} = {u, v}
          PROVE  FALSE
      <3>1. Passes(h)
        BY <1>1, NextPasses
      <3>2. \/ job'[h].user = u /\ job'[h].other = v
            \/ job'[h].user = v /\ job'[h].other = u
        BY <2>2
      <3>3. ~Blocked(job'[h].user, job'[h].other) => FALSE
        BY <1>1, <3>2 DEF Blocked
      <3>4. CASE /\ pc[h] \in PastCheck
                 /\ job'[h].user = job[h].user
                 /\ job'[h].other = job[h].other
        BY <2>1, <2>2, <3>4
      <3>5. QED
        BY <2>2, <3>1, <3>3, <3>4 DEF Passes
    <2>3. ~Admitted(u, v)'
      BY <2>2 DEF Admitted, PastCheck
    <2>4. ASSUME Friends(u, v)', ~Friends(u, v) PROVE FALSE
      <3>1. PICK h \in Handlers :
                AcceptCommit(h) /\ {u, v} = {job[h].user, job[h].other}
        BY <1>1, <2>4, FriendsOnlyByCommit
      <3>2. pc[h] \in PastCheck
        BY <3>1 DEF AcceptCommit, PastCheck
      <3>3. QED
        BY <2>1, <3>1, <3>2
    <2>5. ASSUME NEW r \in Handlers, r \in Pending(u, v)', r \notin Pending(u, v)
          PROVE  FALSE
      <3>1. /\ request'[r].status = "pending" /\ request'[r] # request[r]
            /\ request'[r].from = u /\ request'[r].to = v
        BY <2>5 DEF Pending
      <3>2. pc[r] = "insert" /\ job[r].user = u /\ job[r].other = v
        BY <1>1, <3>1, PendingOnlyByInsert
      <3>3. QED
        BY <2>1, <3>2 DEF PastCheck
    <2>6. Pending(u, v)' \subseteq Pending(u, v)
      BY <2>5 DEF Pending
    <2>7. QED
      BY <2>3, <2>4, <2>6
  <1>2. FriendInv /\ [Next]_vars => [Seals]_vars
    BY <1>1
  <1>3. QED
    BY <1>2, FriendInvariant, PTL DEF Spec, SealedByBlock

-----------------------------------------------------------------------------
(* A call is where it was, or it made the step. *)
LEMMA WhoMoves ==
    ASSUME FriendInv, [Next]_vars, NEW q \in Handlers
    PROVE  (pc'[q] = pc[q] /\ job'[q] = job[q]) \/ Step(q) \/ Call(q)
  <1>1. CASE UNCHANGED vars
    BY <1>1 DEF vars
  <1>2. CASE \E p \in MayBlock : Unblock(p[1], p[2])
    BY <1>2 DEF Unblock
  <1>3. CASE \E h \in Handlers : CooldownEnds(h)
    BY <1>3 DEF CooldownEnds
  <1>4. CASE \E h \in Handlers : Step(h) \/ Call(h)
    BY <1>4, OthersStay
  <1>5. QED
    BY <1>1, <1>2, <1>3, <1>4 DEF Next

(* A send is past the limits only when it was, or no cooldown was running. *)
LEMMA NextLimits ==
    ASSUME FriendInv, [Next]_vars, NEW q \in Handlers,
           pc'[q] \in {"cap", "insert"}
    PROVE  /\ job'[q] = job[q]
           /\ \/ pc[q] \in {"cap", "insert"}
              \/ ~CoolingDown(job[q].user, job[q].other)
  <1> USE DEF FriendInv, TypeOK
  <1>1. ASSUME Finish(q) PROVE FALSE
    BY <1>1 DEF Finish, Goto
  <1>2. CASE Step(q)
    BY <1>1, <1>2 DEF Step, SendCheckFriends, SendFindPending, SendCheckLimits,
       SendCheckCap, SendInsert, AcceptCheckBlock, AcceptBegin, AcceptCommit,
       SetRequestStatus, SoftDelete, BlockSever, BlockCancel, BlockCommit,
       BreakDeadlock, Goto
  <1>3. CASE Call(q)
    BY <1>3 DEF Call, SendRequest, RemoveFriend, Block, AcceptRequest,
       RejectRequest, CancelRequest, Start, Goto
  <1>4. QED
    BY <1>2, <1>3, WhoMoves

(* A send is past the count only when it was, or it counts in this step. *)
LEMMA NextCap ==
    ASSUME FriendInv, [Next]_vars, NEW q \in Handlers, pc'[q] = "insert"
    PROVE  /\ job'[q] = job[q]
           /\ pc[q] = "insert" \/ SendCheckCap(q)
  <1> USE DEF FriendInv, TypeOK
  <1>1. ASSUME Finish(q) PROVE FALSE
    BY <1>1 DEF Finish, Goto
  <1>2. CASE SendCheckCap(q)
    BY <1>1, <1>2 DEF SendCheckCap
  <1>3. CASE Step(q) /\ ~SendCheckCap(q)
    BY <1>1, <1>3 DEF Step, SendCheckFriends, SendFindPending, SendCheckLimits,
       SendInsert, AcceptCheckBlock, AcceptBegin, AcceptCommit,
       SetRequestStatus, SoftDelete, BlockSever, BlockCancel, BlockCommit,
       BreakDeadlock, Goto
  <1>4. CASE Call(q)
    BY <1>4 DEF Call, SendRequest, RemoveFriend, Block, AcceptRequest,
       RejectRequest, CancelRequest, Start, Goto
  <1>5. QED
    BY <1>2, <1>3, <1>4, WhoMoves

(* A new pending request of u to v was at its insert. *)
LEMMA GainsByInsert ==
    ASSUME FriendInv, [Next]_vars, NEW u \in Users, NEW v \in Users,
           ~Sending(u, v, {"insert"})
    PROVE  Pending(u, v)' \subseteq Pending(u, v)
  <1> SUFFICES ASSUME NEW r \in Handlers, r \in Pending(u, v)', r \notin Pending(u, v)
               PROVE  FALSE
    BY DEF Pending
  <1>1. /\ request'[r].status = "pending" /\ request'[r] # request[r]
        /\ request'[r].from = u /\ request'[r].to = v
    BY DEF Pending
  <1>2. pc[r] = "insert" /\ job[r].user = u /\ job[r].other = v
    BY <1>1, PendingOnlyByInsert
  <1>3. QED
    BY <1>2 DEF Sending

(* Once no send of u to v is past its limits, u sends v nothing while the  *)
(* cooldown of a rejection lasts.                                          *)
THEOREM CooldownCorrect == Spec => CooldownSeals
  <1> DEFINE Where == {"cap", "insert"}
             Seals == \A u, v \in Users :
                /\ CoolingDown(u, v) /\ CoolingDown(u, v)'
                /\ ~Sending(u, v, Where)
                => /\ ~Sending(u, v, Where)'
                   /\ Pending(u, v)' \subseteq Pending(u, v)
  <1>1. ASSUME FriendInv, [Next]_vars, NEW u \in Users, NEW v \in Users,
               CoolingDown(u, v), ~Sending(u, v, Where)
        PROVE  /\ ~Sending(u, v, Where)'
               /\ Pending(u, v)' \subseteq Pending(u, v)
    <2>1. ASSUME NEW q \in Handlers, job'[q].user = u, job'[q].other = v,
                 pc'[q] \in Where
          PROVE  FALSE
      BY <1>1, <2>1, NextLimits DEF Sending
    <2>2. ~Sending(u, v, {"insert"})
      BY <1>1 DEF Sending
    <2>3. QED
      BY <1>1, <2>1, <2>2, GainsByInsert DEF Sending
  <1>2. FriendInv /\ [Next]_vars => [Seals]_vars
    BY <1>1
  <1>3. QED
    BY <1>2, FriendInvariant, PTL DEF Spec, CooldownSeals

(* The requests of u, those that are pending and those about to be made.   *)
Begun(u) == Outgoing(u) \cup Counted(u)

CapInv ==
    \A u \in Users : /\ IsFiniteSet(Begun(u))
                     /\ Cardinality(Begun(u)) < MaxPending + Overlap

(* A request of u that is begun was, or its send counts in this step. *)
LEMMA NextBegun ==
    ASSUME FriendInv, [Next]_vars, NEW u \in Users, NEW q \in Begun(u)',
           q \notin Begun(u)
    PROVE  /\ q \in Handlers /\ SendCheckCap(q)
           /\ job[q].user = u /\ pc'[q] = "insert"
  <1>1. q \in Handlers
    BY DEF Begun, Outgoing, Pending, Counted
  <1>2. CASE q \in Counted(u)'
    BY <1>1, <1>2, NextCap DEF Begun, Counted
  <1>3. CASE q \in Outgoing(u)'
    <2>1. PICK v \in Users : q \in Pending(u, v)'
      BY <1>3 DEF Outgoing
    <2>2. /\ request'[q].status = "pending"
          /\ request'[q].from = u /\ request'[q].to = v
      BY <2>1 DEF Pending
    <2>3. CASE request'[q] = request[q]
      BY <1>1, <2>2, <2>3 DEF Begun, Outgoing, Pending
    <2>4. CASE request'[q] # request[q]
      BY <1>1, <2>2, <2>4, PendingOnlyByInsert DEF Begun, Counted
    <2>5. QED
      BY <2>3, <2>4
  <1>4. QED
    BY <1>2, <1>3 DEF Begun

(* The cap, one user at a time: what is begun was begun, or one send passes *)
(* its count, so that u has less than MaxPending requests.                  *)
LEMMA NextCapInv ==
    ASSUME FriendInv, [Next]_vars, CapInv, NEW u \in Users,
           (Cardinality(Counted(u)) <= Overlap)'
    PROVE  (/\ IsFiniteSet(Begun(u))
            /\ Cardinality(Begun(u)) < MaxPending + Overlap)'
  <1>1. IsFiniteSet(Begun(u)) /\ Cardinality(Begun(u)) < MaxPending + Overlap
    BY DEF CapInv
  <1>2. CASE Begun(u)' \subseteq Begun(u)
    <2>1. /\ IsFiniteSet(Begun(u)')
          /\ Cardinality(Begun(u)') <= Cardinality(Begun(u))
      BY <1>1, <1>2, FS_Subset
    <2>2. Cardinality(Begun(u)') \in Nat /\ Cardinality(Begun(u)) \in Nat
      BY <1>1, <2>1, FS_CardinalityType
    <2>3. QED
      BY <1>1, <2>1, <2>2
  <1>3. ASSUME NEW h \in Begun(u)', h \notin Begun(u)
        PROVE  (/\ IsFiniteSet(Begun(u))
                /\ Cardinality(Begun(u)) < MaxPending + Overlap)'
    <2>1. /\ h \in Handlers /\ SendCheckCap(h)
          /\ job[h].user = u /\ pc'[h] = "insert"
      BY <1>3, NextBegun
    <2>2. Cardinality(Outgoing(u)) < MaxPending /\ request' = request
      <3>1. ~Finish(h)
        BY <2>1 DEF Finish, Goto, FriendInv, TypeOK
      <3>2. ~ (Cardinality(Outgoing(u)) >= MaxPending) /\ request' = request
        BY <2>1, <3>1 DEF SendCheckCap, tables
      <3>3. Outgoing(u) \subseteq Begun(u)
        BY DEF Begun
      <3>4. Cardinality(Outgoing(u)) \in Nat
        BY <1>1, <3>3, FS_Subset, FS_CardinalityType
      <3>5. QED
        BY <3>2, <3>4
    <2>3. Outgoing(u)' = Outgoing(u)
      BY <2>2 DEF Outgoing, Pending
    <2>4. Counted(u)' \subseteq Counted(u) \cup {h}
      <3>1. Step(h)
        BY <2>1 DEF Step
      <3>2. QED
        BY <2>1, <3>1, OthersStay DEF Counted
    <2>5. IsFiniteSet(Outgoing(u)) /\ IsFiniteSet(Counted(u)')
      <3>1. Outgoing(u) \subseteq Begun(u) /\ Counted(u) \subseteq Begun(u)
        BY DEF Begun
      <3>2. IsFiniteSet(Outgoing(u)) /\ IsFiniteSet(Counted(u))
        BY <1>1, <3>1, FS_Subset
      <3>3. IsFiniteSet(Counted(u) \cup {h})
        BY <3>2, FS_AddElement
      <3>4. QED
        BY <2>4, <3>2, <3>3, FS_Subset
    <2>6. Begun(u)' = Outgoing(u) \cup Counted(u)'
      BY <2>3 DEF Begun
    <2> DEFINE O == Outgoing(u)
               C == Counted(u)'
    <2>7. /\ IsFiniteSet(O \cup C)
          /\ IsFiniteSet(O \cap C)
          /\ Cardinality(O \cup C) =
                Cardinality(O) + Cardinality(C) - Cardinality(O \cap C)
      BY <2>5, FS_Union, FS_Intersection
    <2>8. /\ Cardinality(O) \in Nat /\ Cardinality(C) \in Nat
          /\ Cardinality(O \cap C) \in Nat
      BY <2>5, <2>7, FS_CardinalityType
    <2>9. Cardinality(C) <= Overlap
      OBVIOUS
    <2> HIDE DEF O, C
    <2>10. Cardinality(O \cup C) < MaxPending + Overlap
      <3>1. Cardinality(O) < MaxPending
        BY <2>2 DEF O
      <3>2. QED
        BY <2>7, <2>8, <2>9, <3>1
    <2>11. Begun(u)' = O \cup C
      BY <2>6 DEF O, C
    <2>12. QED
      BY <2>7, <2>10, <2>11
  <1>4. QED
    BY <1>2, <1>3

(* While the sends of a user that are past their count together are at      *)
(* most Overlap, the cap is overrun by less than that.                      *)
THEOREM CapCorrect == Spec => CapBounded
  <1> DEFINE Few == \A u \in Users : Cardinality(Counted(u)) <= Overlap
             Less == \A u \in Users :
                        Cardinality(Outgoing(u)) < MaxPending + Overlap
  <1>1. Init => CapInv
    <2> SUFFICES ASSUME Init, NEW u \in Users
                 PROVE  /\ IsFiniteSet(Begun(u))
                        /\ Cardinality(Begun(u)) < MaxPending + Overlap
      BY DEF CapInv
    <2>1. Begun(u) = {}
      BY DEF Init, Begun, Outgoing, Pending, Counted, NoRequest
    <2>2. QED
      BY <2>1, FS_EmptySet
  <1>2. FriendInv /\ [Next]_vars /\ CapInv /\ Few' => CapInv'
    BY NextCapInv DEF CapInv
  <1>3. FriendInv /\ CapInv => Less
    <2> SUFFICES ASSUME CapInv, NEW u \in Users
                 PROVE  Cardinality(Outgoing(u)) < MaxPending + Overlap
      OBVIOUS
    <2>1. /\ IsFiniteSet(Begun(u)) /\ Outgoing(u) \subseteq Begun(u)
          /\ Cardinality(Begun(u)) < MaxPending + Overlap
      BY DEF CapInv, Begun
    <2>2. /\ IsFiniteSet(Outgoing(u))
          /\ Cardinality(Outgoing(u)) <= Cardinality(Begun(u))
      BY <2>1, FS_Subset
    <2>3. Cardinality(Outgoing(u)) \in Nat /\ Cardinality(Begun(u)) \in Nat
      BY <2>1, <2>2, FS_CardinalityType
    <2>4. QED
      BY <2>1, <2>2, <2>3
  <1>4. QED
    BY <1>1, <1>2, <1>3, FriendInvariant, PTL DEF Spec, CapBounded

-----------------------------------------------------------------------------
(* What call q, with locals x at l, may still decide. *)
Decider(l, x, r) ==
    \/ l \in {"block_check", "accept", "decide"} /\ x.rid = r
    \/ l \in {"commit", "seal"} /\ r \in x.rows

(* A call comes to decide r only when r is pending. *)
LEMMA NextDecider ==
    ASSUME FriendInv, [Next]_vars, NEW q \in Handlers, NEW r \in Handlers,
           Decider(pc'[q], job'[q], r)
    PROVE  Decider(pc[q], job[q], r) \/ request[r].status = "pending"
  <1> USE DEF FriendInv, TypeOK, Decider
  <1>1. job[q] \in Job
    OBVIOUS
  <1>2. ASSUME Finish(q) PROVE FALSE
    BY <1>2 DEF Finish, Goto
  <1>3. CASE SendFindPending(q)
    BY <1>1, <1>2, <1>3 DEF SendFindPending, Goto, Job, Pending
  <1>4. CASE AcceptBegin(q)
    BY <1>1, <1>4 DEF AcceptBegin, Goto, Job, Pending
  <1>8. CASE BlockCancel(q)
    BY <1>1, <1>8 DEF BlockCancel, Goto, Job, Pending
  <1>5. CASE Step(q) /\ ~SendFindPending(q) /\ ~AcceptBegin(q) /\ ~BlockCancel(q)
    BY <1>2, <1>5 DEF Step, SendCheckFriends, SendCheckLimits,
       SendCheckCap, SendInsert, AcceptCheckBlock, AcceptCommit,
       SetRequestStatus, SoftDelete, BlockSever, BlockCommit, BreakDeadlock, Goto
  <1>6. CASE Call(q)
    <2>1. ASSUME NEW u \in Users, NEW v \in Users,
                 SendRequest(q, u, v) \/ RemoveFriend(q, u, v) \/ Block(q, u, v)
          PROVE  FALSE
      BY <2>1 DEF SendRequest, RemoveFriend, Block, Start, Goto
    <2>2. ASSUME NEW u \in Users, NEW s \in Handlers,
                 \/ AcceptRequest(q, u, s) \/ RejectRequest(q, u, s)
                 \/ CancelRequest(q, u, s)
          PROVE  request[r].status = "pending"
      BY <2>2 DEF AcceptRequest, RejectRequest, CancelRequest, Start, Goto
    <2>3. QED
      BY <1>6, <2>1, <2>2 DEF Call
  <1>7. QED
    BY <1>3, <1>4, <1>5, <1>6, <1>8, WhoMoves

(* Only a call that may decide it changes a request that is decided. *)
LEMMA ChangedByDecider ==
    ASSUME FriendInv, [Next]_vars, NEW r \in Handlers,
           request[r].status \notin {"none", "pending"},
           request'[r] # request[r]
    PROVE  \E h \in Handlers : Decider(pc[h], job[h], r)
  <1> USE DEF FriendInv, TypeOK
  <1>1. ASSUME NEW h \in Handlers, SendInsert(h) PROVE FALSE
    BY <1>1 DEF SendInsert, RequestsOK
  <1>2. ASSUME NEW h \in Handlers, AcceptCommit(h)
        PROVE  Decider(pc[h], job[h], r)
    BY <1>2 DEF AcceptCommit, Decider
  <1>3. ASSUME NEW h \in Handlers, SetRequestStatus(h)
        PROVE  Decider(pc[h], job[h], r)
    BY <1>3 DEF SetRequestStatus, Decider
  <1>4. ASSUME NEW h \in Handlers, BlockCommit(h)
        PROVE  Decider(pc[h], job[h], r)
    BY <1>4 DEF BlockCommit, Decider
  <1>5. request' # request
    OBVIOUS
  <1>6. CASE \E h \in Handlers : Step(h)
    BY <1>1, <1>2, <1>3, <1>4, <1>5, <1>6 DEF Step, SendCheckFriends,
       SendFindPending, SendCheckLimits, SendCheckCap, AcceptCheckBlock,
       AcceptBegin, SoftDelete, BlockSever, BlockCancel, BreakDeadlock, tables
  <1>7. CASE \E h \in Handlers : Call(h) \/ CooldownEnds(h)
    BY <1>5, <1>7 DEF Call, SendRequest, RemoveFriend, Block, AcceptRequest,
       RejectRequest, CancelRequest, CooldownEnds, tables
  <1>8. CASE UNCHANGED vars
    BY <1>5, <1>8 DEF vars, tables
  <1>9. CASE \E p \in MayBlock : Unblock(p[1], p[2])
    BY <1>5, <1>9 DEF Unblock
  <1>10. QED
    BY <1>6, <1>7, <1>8, <1>9 DEF Next

(* A decision is overwritten only by calls that found the request pending: *)
(* once none of them is under way it stands for good.                      *)
THEOREM DecisionsCorrect == Spec => DecisionsSettle
  <1> DEFINE Settles == \A r \in Handlers :
                request[r].status \in {"accepted", "rejected", "cancelled"}
                /\ ~Deciding(r)
                   => ~Deciding(r)' /\ request'[r] = request[r]
  <1>1. ASSUME FriendInv, [Next]_vars, NEW r \in Handlers,
               request[r].status \in {"accepted", "rejected", "cancelled"},
               ~Deciding(r)
        PROVE  ~Deciding(r)' /\ request'[r] = request[r]
    <2>1. \A h \in Handlers : ~Decider(pc[h], job[h], r)
      BY <1>1 DEF Deciding, Decider
    <2>2. \A h \in Handlers : ~Decider(pc'[h], job'[h], r)
      BY <1>1, <2>1, NextDecider
    <2>3. request'[r] = request[r]
      BY <1>1, <2>1, ChangedByDecider
    <2>4. QED
      BY <2>2, <2>3 DEF Deciding, Decider
  <1>2. FriendInv /\ [Next]_vars => [Settles]_vars
    BY <1>1
  <1>3. QED
    BY <1>2, FriendInvariant, PTL DEF Spec, DecisionsSettle
=============================================================================
