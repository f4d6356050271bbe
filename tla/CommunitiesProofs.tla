-------------------------- MODULE CommunitiesProofs --------------------------
(***************************************************************************)
(* Proofs about Communities, for any users, calls, posts and invitations.  *)
(* CommunityInv adds to the types what a call under way knows, that the    *)
(* owner's row is beyond the reach of every call, and that nothing happens *)
(* before the community is created.  CountInv, at the end, is about the    *)
(* member counter and the history variable of MCCommunities.               *)
(***************************************************************************)
EXTENDS MCCommunities, FiniteSetTheorems, TLAPS

USE CommunitiesAssumption DEF CommunitiesAssumption

(* What a call at l with locals x relies on, given the membership rows m. *)
JobOK(l, x, m) ==
    /\ l \in {"add", "remove", "count", "target", "approve", "role",
              "invite", "respond"} => x.about \in Users
    /\ l \in {"post", "delete_auth", "react_auth", "react", "react_commit",
              "unreact"} => x.user \in Users
    /\ l \in {"delete_auth", "delete", "react_auth", "react",
              "react_commit", "unreact"} => x.id \in Posts
    /\ l = "respond" => x.id \in Invites
    /\ l = "target" => x.does \in {"approve", "role", "kick", "invite"}
    /\ l \in {"remove", "role"} => m[x.about].role # "owner"

JobsOK == \A h \in Handlers : JobOK(pc[h], job[h], member)

Unborn ==
    visibility = "none" =>
        /\ \A h \in Handlers : pc[h] = "idle"
        /\ \A u \in Users : member[u] = NoMember
        /\ \A i \in Invites : invites[i].status = "none"
        /\ \A p \in Posts : post[p].status = "none"

CommunityInv == TypeOK /\ JobsOK /\ Unborn /\ OneOwner

(* Who is the owner, and active as such, after a step is so before it. *)
KeepsOwner ==
    \A u \in Users :
        /\ member'[u].role = "owner" <=> member[u].role = "owner"
        /\ member[u].role = "owner" /\ Active(u) => Active(u)'

-----------------------------------------------------------------------------
LEMMA NoJobType == NoJob \in Job
  BY DEF NoJob, Job

LEMMA MemberParts ==
    ASSUME CommunityInv, NEW u \in Users
    PROVE  /\ member[u].role \in {"owner", "moderator", "member", "none"}
           /\ member[u].status \in {"active", "pending", "none"}
           /\ HasRow(u) <=> member[u].status # "none"
           /\ HasRow(u) => member[u] \in
                 [role : {"owner", "moderator", "member"},
                  status : {"active", "pending"}]
  BY DEF CommunityInv, TypeOK, Member, NoMember, HasRow

(* A call moves to l with locals x, and the rows stay rows and keep the    *)
(* owner: its knowledge, and that of the others, holds.                    *)
LEMMA MoveJobs ==
    ASSUME CommunityInv, NEW h \in Handlers, NEW l \in PC, NEW x \in Job,
           pc' = [pc EXCEPT ![h] = l], job' = [job EXCEPT ![h] = x],
           visibility # "none", UNCHANGED visibility,
           member' \in [Users -> Member], KeepsOwner, JobOK(l, x, member)
    PROVE  /\ pc' \in [Handlers -> PC]
           /\ job' \in [Handlers -> Job]
           /\ JobsOK' /\ Unborn' /\ OneOwner'
  <1> USE DEF CommunityInv, TypeOK
  <1>1. pc' \in [Handlers -> PC] /\ job' \in [Handlers -> Job]
    OBVIOUS
  <1>2. \A q \in Handlers : JobOK(pc'[q], job'[q], member)
    BY DEF JobsOK
  <1>3. \A u \in Users : member[u].role # "owner" => member'[u].role # "owner"
    BY DEF KeepsOwner
  <1>4. ASSUME NEW q \in Handlers PROVE JobOK(pc'[q], job'[q], member')
    BY <1>2, <1>3 DEF JobOK
  <1>5. JobsOK'
    BY <1>4 DEF JobsOK
  <1>6. Unborn'
    BY DEF Unborn
  <1>7. OneOwner'
    BY DEF OneOwner, KeepsOwner, IsOwner, Active
  <1>8. QED
    BY <1>1, <1>5, <1>6, <1>7

(* A step that changes neither the rows nor any table. *)
LEMMA KeepAll ==
    ASSUME CommunityInv, NEW h \in Handlers, NEW l \in PC, NEW x \in Job,
           pc' = [pc EXCEPT ![h] = l], job' = [job EXCEPT ![h] = x],
           visibility # "none", UNCHANGED <<members, content>>,
           JobOK(l, x, member)
    PROVE  CommunityInv'
  <1>1. KeepsOwner /\ member' \in [Users -> Member] /\ visibility' = visibility
    BY DEF KeepsOwner, members, Active, CommunityInv, TypeOK
  <1>2. pc' \in [Handlers -> PC] /\ job' \in [Handlers -> Job]
        /\ JobsOK' /\ Unborn' /\ OneOwner'
    BY <1>1, MoveJobs
  <1>3. QED
    BY <1>2 DEF CommunityInv, TypeOK, members, content

(* A call that ends. *)
LEMMA FinishJobs ==
    ASSUME CommunityInv, NEW h \in Handlers, Finish(h),
           visibility # "none", UNCHANGED visibility,
           member' \in [Users -> Member], KeepsOwner
    PROVE  /\ pc' \in [Handlers -> PC]
           /\ job' \in [Handlers -> Job]
           /\ JobsOK' /\ Unborn' /\ OneOwner'
  <1>1. "done" \in PC /\ JobOK("done", NoJob, member)
    BY DEF PC, JobOK
  <1>2. QED
    BY <1>1, MoveJobs, NoJobType DEF Finish

LEMMA LeaveAll ==
    ASSUME CommunityInv, NEW h \in Handlers, Finish(h), visibility # "none",
           UNCHANGED <<members, content>>
    PROVE  CommunityInv'
  <1>1. "done" \in PC /\ JobOK("done", NoJob, member)
    BY DEF PC, JobOK
  <1>2. QED
    BY <1>1, KeepAll, NoJobType DEF Finish

(* Who runs a call, and what it knows. *)
LEMMA Knows ==
    ASSUME CommunityInv, NEW h \in Handlers
    PROVE  /\ pc[h] \in PC /\ job[h] \in Job
           /\ JobOK(pc[h], job[h], member)
           /\ pc[h] # "idle" => visibility # "none"
  BY DEF CommunityInv, TypeOK, JobsOK, Unborn

-----------------------------------------------------------------------------
(* CommunityInv, action by action. *)
LEMMA CreateStep ==
    ASSUME CommunityInv, NEW u \in Users, Create(u)
    PROVE  CommunityInv'
  <1> USE DEF CommunityInv, TypeOK, Create, content
  <1>1. TypeOK'
    BY DEF Member
  <1>2. \A h \in Handlers : pc[h] = "idle"
    BY DEF Unborn
  <1>3. JobsOK'
    BY <1>2 DEF JobsOK, JobOK
  <1>4. Unborn'
    BY DEF Unborn
  <1>5. OneOwner'
    <2>1. \A v \in Users : member[v] = NoMember
      BY DEF Unborn
    <2>2. \A v \in Users :
             member'[v] = IF v = u THEN [role |-> "owner", status |-> "active"]
                                   ELSE NoMember
      BY <2>1
    <2>3. QED
      BY <2>2 DEF OneOwner, IsOwner, Active, NoMember
  <1>6. QED
    BY <1>1, <1>3, <1>4, <1>5

LEMMA StartStep ==
    ASSUME CommunityInv, NEW h \in Handlers, NEW l \in PC, NEW x \in Job,
           Start(h, l, x), UNCHANGED <<members, content>>,
           visibility # "none", JobOK(l, x, member)
    PROVE  CommunityInv'
  BY KeepAll DEF Start

(* Who has a row, an invitation or a post at hand is in a community. *)
LEMMA Born ==
    ASSUME CommunityInv
    PROVE  /\ \A u \in Users : HasRow(u) => visibility # "none"
           /\ \A u \in Users : Active(u) => visibility # "none"
           /\ \A u \in Users : PendingInvites(u) # {} => visibility # "none"
           /\ \A p \in Posts : post[p].status # "none" => visibility # "none"
  BY DEF CommunityInv, Unborn, HasRow, Active, NoMember, PendingInvites

LEMMA MemberCallStep ==
    ASSUME CommunityInv, NEW h \in Handlers, MemberCall(h)
    PROVE  CommunityInv'
  <1>1. PICK u \in Users :
            \/ Join(h, u) \/ Leave(h, u)
            \/ \E v \in Users, does \in {"approve", "kick", "invite"} :
                  ModeratorCall(h, u, v, does)
            \/ \E v \in Users, role \in {"moderator", "member"} :
                  ChangeRole(h, u, v, role)
            \/ \E i \in Invites, accept \in BOOLEAN : RespondInvite(h, u, i, accept)
    BY DEF MemberCall
  <1>2. CASE Join(h, u)
    <2> DEFINE x == [NoJob EXCEPT !.user = u, !.about = u, !.does = "join",
                 !.status = IF visibility = "public" THEN "active" ELSE "pending"]
    <2>1. x \in Job /\ "add" \in PC /\ JobOK("add", x, member)
      BY DEF NoJob, Job, PC, JobOK
    <2>2. Start(h, "add", x) /\ visibility # "none" /\ UNCHANGED <<members, content>>
      BY <1>2 DEF Join
    <2> HIDE DEF x
    <2>3. QED
      BY <2>1, <2>2, StartStep
  <1>3. CASE Leave(h, u)
    <2> DEFINE x == [NoJob EXCEPT !.user = u, !.about = u,
                                  !.status = member[u].status]
    <2>1. member[u].status \in {"active", "pending"} /\ member[u].role # "owner"
      BY <1>3, MemberParts DEF Leave
    <2>2. x \in Job /\ "remove" \in PC /\ JobOK("remove", x, member)
      BY <2>1 DEF NoJob, Job, PC, JobOK
    <2>3. /\ Start(h, "remove", x) /\ visibility # "none"
          /\ UNCHANGED <<members, content>>
      BY <1>3, Born DEF Leave
    <2> HIDE DEF x
    <2>4. QED
      BY <2>2, <2>3, StartStep
  <1>4. ASSUME NEW v \in Users, NEW does \in {"approve", "kick", "invite"},
               ModeratorCall(h, u, v, does)
        PROVE  CommunityInv'
    <2> DEFINE x == [NoJob EXCEPT !.user = u, !.about = v, !.does = does]
    <2>1. x \in Job /\ "target" \in PC /\ JobOK("target", x, member)
      BY DEF NoJob, Job, PC, JobOK
    <2>2. /\ Start(h, "target", x) /\ visibility # "none"
          /\ UNCHANGED <<members, content>>
      BY <1>4, Born DEF ModeratorCall, IsModerator
    <2> HIDE DEF x
    <2>3. QED
      BY <2>1, <2>2, StartStep
  <1>5. ASSUME NEW v \in Users, NEW role \in {"moderator", "member"},
               ChangeRole(h, u, v, role)
        PROVE  CommunityInv'
    <2> DEFINE x == [NoJob EXCEPT !.user = u, !.about = v,
                                  !.does = "role", !.role = role]
    <2>1. x \in Job /\ "target" \in PC /\ JobOK("target", x, member)
      BY DEF NoJob, Job, PC, JobOK
    <2>2. /\ Start(h, "target", x) /\ visibility # "none"
          /\ UNCHANGED <<members, content>>
      BY <1>5, Born DEF ChangeRole, IsOwner
    <2> HIDE DEF x
    <2>3. QED
      BY <2>1, <2>2, StartStep
  <1>6. ASSUME NEW i \in Invites, NEW accept \in BOOLEAN,
               RespondInvite(h, u, i, accept)
        PROVE  CommunityInv'
    <2> DEFINE x == [NoJob EXCEPT !.user = u, !.about = u, !.id = i,
                                  !.flag = accept]
    <2>1. x \in Job /\ "respond" \in PC /\ JobOK("respond", x, member)
      BY DEF NoJob, Job, PC, JobOK
    <2>2. /\ Start(h, "respond", x) /\ visibility # "none"
          /\ UNCHANGED <<members, content>>
      BY <1>6, Born DEF RespondInvite
    <2> HIDE DEF x
    <2>3. QED
      BY <2>1, <2>2, StartStep
  <1>7. QED
    BY <1>1, <1>2, <1>3, <1>4, <1>5, <1>6

LEMMA PostingCallStep ==
    ASSUME CommunityInv, NEW h \in Handlers, PostingCall(h)
    PROVE  CommunityInv'
  <1>1. PICK u \in Users :
            \/ \E announcement \in BOOLEAN : CreatePost(h, u, announcement)
            \/ \E p \in Posts, l \in {"delete_auth", "react_auth", "unreact_auth"} :
                  PostCall(h, u, p, l)
    BY DEF PostingCall
  <1>2. ASSUME NEW announcement \in BOOLEAN, CreatePost(h, u, announcement)
        PROVE  CommunityInv'
    <2> DEFINE x == [NoJob EXCEPT !.user = u]
    <2>1. x \in Job /\ "post" \in PC /\ JobOK("post", x, member)
      BY DEF NoJob, Job, PC, JobOK
    <2>2. /\ Start(h, "post", x) /\ visibility # "none"
          /\ UNCHANGED <<members, content>>
      BY <1>2, Born DEF CreatePost
    <2> HIDE DEF x
    <2>3. QED
      BY <2>1, <2>2, StartStep
  <1>3. ASSUME NEW p \in Posts,
               NEW l \in {"delete_auth", "react_auth", "unreact_auth"},
               PostCall(h, u, p, l)
        PROVE  CommunityInv'
    <2> DEFINE m == IF l = "unreact_auth" THEN "react_auth" ELSE l
               x == [NoJob EXCEPT !.user = u, !.id = p,
                                  !.flag = (l = "unreact_auth")]
    <2>1. (l = "unreact_auth") \in BOOLEAN
      OBVIOUS
    <2>2. x \in Job
      BY <2>1 DEF NoJob, Job
    <2>3. x.user = u /\ x.id = p
      BY DEF NoJob
    <2>4. m \in {"delete_auth", "react_auth"}
      OBVIOUS
    <2>5. m \in PC /\ JobOK(m, x, member)
      BY <2>3, <2>4 DEF PC, JobOK
    <2>6. /\ Start(h, m, x) /\ visibility # "none"
          /\ UNCHANGED <<members, content>>
      BY <1>3, Born DEF PostCall
    <2> HIDE DEF x, m
    <2>7. QED
      BY <2>2, <2>5, <2>6, StartStep
  <1>4. QED
    BY <1>1, <1>2, <1>3

LEMMA RowSteps ==
    ASSUME CommunityInv, NEW h \in Handlers,
           AddMember(h) \/ RemoveMember(h) \/ ApproveMember(h)
    PROVE  CommunityInv'
  <1> DEFINE x == [job[h] EXCEPT !.delta = 1]
             y == [job[h] EXCEPT !.delta = -1]
  <1>1. /\ pc[h] \in {"add", "remove", "approve"} /\ job[h] \in Job
        /\ JobOK(pc[h], job[h], member) /\ visibility # "none"
    BY Knows DEF AddMember, RemoveMember, ApproveMember
  <1>2. job[h].about \in Users /\ UNCHANGED <<visibility, memberCount, invites, content>>
    BY <1>1 DEF JobOK, AddMember, RemoveMember, ApproveMember
  <1>3. job[h].status \in {"active", "pending"}
    BY <1>1 DEF Job
  <1>4. \/ Count(h, 1) \/ Count(h, -1) \/ Finish(h)
    BY DEF AddMember, RemoveMember, ApproveMember
  <1>5. "count" \in PC /\ x \in Job /\ y \in Job
    BY <1>1 DEF PC, Job
  <1>6. JobOK("count", x, member) /\ JobOK("count", y, member)
    BY <1>1, <1>2 DEF JobOK, Job
  <1>7. member' \in [Users -> Member] /\ KeepsOwner
    <2>1. CASE AddMember(h)
      <3>1. ~HasRow(job[h].about) => member[job[h].about].role = "none"
        BY <1>2 DEF HasRow
      <3>2. QED
        BY <1>2, <1>3, <2>1, <3>1 DEF AddMember, CommunityInv, TypeOK, Member,
           KeepsOwner, Active
    <2>2. CASE RemoveMember(h)
      <3>1. member[job[h].about].role # "owner"
        BY <1>1, <2>2 DEF JobOK, RemoveMember
      <3>2. QED
        BY <1>2, <2>2, <3>1 DEF RemoveMember, CommunityInv, TypeOK, Member,
           NoMember, KeepsOwner, Active
    <2>3. CASE ApproveMember(h)
      <3>1. \A u \in Users : HasRow(u) => member[u] \in
               [role : {"owner", "moderator", "member"},
                status : {"active", "pending"}]
        BY MemberParts
      <3>2. QED
        BY <1>2, <2>3, <3>1 DEF ApproveMember, CommunityInv, TypeOK, Member,
           KeepsOwner, Active
    <2>4. QED
      BY <2>1, <2>2, <2>3
  <1> HIDE DEF x, y
  <1>8. /\ pc' \in [Handlers -> PC] /\ job' \in [Handlers -> Job]
        /\ JobsOK' /\ Unborn' /\ OneOwner'
    <2>1. CASE Count(h, 1)
      <3>1. pc' = [pc EXCEPT ![h] = "count"] /\ job' = [job EXCEPT ![h] = x]
        BY <2>1 DEF Count, x
      <3>2. QED
        BY <1>1, <1>2, <1>5, <1>6, <1>7, <3>1, MoveJobs
    <2>2. CASE Count(h, -1)
      <3>1. pc' = [pc EXCEPT ![h] = "count"] /\ job' = [job EXCEPT ![h] = y]
        BY <2>2 DEF Count, y
      <3>2. QED
        BY <1>1, <1>2, <1>5, <1>6, <1>7, <3>1, MoveJobs
    <2>3. CASE Finish(h)
      BY <1>1, <1>2, <1>7, <2>3, FinishJobs
    <2>4. QED
      BY <1>4, <2>1, <2>2, <2>3
  <1>9. QED
    BY <1>2, <1>7, <1>8 DEF CommunityInv, TypeOK, content

LEMMA IncMemberCountStep ==
    ASSUME CommunityInv, NEW h \in Handlers, IncMemberCount(h)
    PROVE  CommunityInv'
  <1>1. visibility # "none" /\ job[h] \in Job
    BY Knows DEF IncMemberCount
  <1>2. memberCount' \in 0..MaxCount
    BY <1>1 DEF IncMemberCount, CommunityInv, TypeOK, Job
  <1>3. KeepsOwner /\ member' \in [Users -> Member]
    BY DEF IncMemberCount, KeepsOwner, Active, CommunityInv, TypeOK
  <1>4. /\ pc' \in [Handlers -> PC] /\ job' \in [Handlers -> Job]
        /\ JobsOK' /\ Unborn' /\ OneOwner'
    BY <1>1, <1>3, FinishJobs DEF IncMemberCount
  <1>5. QED
    BY <1>2, <1>3, <1>4 DEF IncMemberCount, CommunityInv, TypeOK, content

LEMMA ReadTargetStep ==
    ASSUME CommunityInv, NEW h \in Handlers, ReadTarget(h)
    PROVE  CommunityInv'
  <1> DEFINE m == member[job[h].about]
             does == job[h].does
             l == IF does = "kick" THEN "remove" ELSE does
             x == [NoJob EXCEPT
                      !.about = job[h].about, !.role = job[h].role,
                      !.status = IF does = "kick" THEN m.status ELSE "active"]
  <1>1. /\ pc[h] = "target" /\ job[h] \in Job /\ JobOK(pc[h], job[h], member)
        /\ visibility # "none"
    BY Knows DEF ReadTarget
  <1>2. /\ does \in {"approve", "role", "kick", "invite"}
        /\ job[h].about \in Users
    BY <1>1 DEF JobOK
  <1>3. CASE Finish(h)
    BY <1>1, <1>3, LeaveAll DEF ReadTarget
  <1>4. CASE ~Finish(h)
    <2>1. /\ pc' = [pc EXCEPT ![h] = l] /\ job' = [job EXCEPT ![h] = x]
          /\ UNCHANGED <<members, content>>
      BY <1>4 DEF ReadTarget
    <2>2. does = "kick" => m.role \notin {"none", "owner"}
      BY <1>4 DEF ReadTarget
    <2>3. does = "role" => m.role # "owner"
      BY <1>4 DEF ReadTarget
    <2>4. l \in PC
      BY <1>2 DEF PC
    <2>5. does = "kick" => m.status \in {"active", "pending"}
      BY <1>2, <2>2, MemberParts DEF HasRow
    <2>6. x \in Job
      BY <1>1, <1>2, <2>5 DEF NoJob, Job
    <2>7. JobOK(l, x, member)
      BY <1>2, <2>2, <2>3 DEF JobOK, NoJob
    <2> HIDE DEF x, l
    <2>8. QED
      BY <1>1, <2>1, <2>4, <2>6, <2>7, KeepAll
  <1>5. QED
    BY <1>3, <1>4

LEMMA SetMemberRoleStep ==
    ASSUME CommunityInv, NEW h \in Handlers, SetMemberRole(h)
    PROVE  CommunityInv'
  <1>1. /\ pc[h] = "role" /\ job[h] \in Job /\ JobOK(pc[h], job[h], member)
        /\ visibility # "none"
    BY Knows DEF SetMemberRole
  <1>2. /\ job[h].about \in Users /\ member[job[h].about].role # "owner"
        /\ job[h].role \in {"moderator", "member"}
    BY <1>1 DEF JobOK, Job
  <1>3. HasRow(job[h].about) => member[job[h].about] \in
            [role : {"owner", "moderator", "member"},
             status : {"active", "pending"}]
    BY <1>2, MemberParts
  <1>4. member' \in [Users -> Member] /\ KeepsOwner
    BY <1>2, <1>3 DEF SetMemberRole, CommunityInv, TypeOK, Member, KeepsOwner,
       Active
  <1>5. /\ pc' \in [Handlers -> PC] /\ job' \in [Handlers -> Job]
        /\ JobsOK' /\ Unborn' /\ OneOwner'
    BY <1>1, <1>4, FinishJobs DEF SetMemberRole
  <1>6. QED
    BY <1>4, <1>5 DEF SetMemberRole, CommunityInv, TypeOK, content

LEMMA InviteSteps ==
    ASSUME CommunityInv, NEW h \in Handlers,
           CreateInvite(h) \/ SetInviteStatus(h)
    PROVE  CommunityInv'
  <1>1. /\ pc[h] \in {"invite", "respond"} /\ job[h] \in Job
        /\ JobOK(pc[h], job[h], member) /\ visibility # "none"
    BY Knows DEF CreateInvite, SetInviteStatus
  <1>2. invites' \in [Invites -> Invite]
    BY <1>1 DEF JobOK, CreateInvite, SetInviteStatus, CommunityInv, TypeOK, Invite
  <1>3. UNCHANGED <<visibility, memberCount, member, content>>
    BY DEF CreateInvite, SetInviteStatus
  <1>4. member' \in [Users -> Member] /\ KeepsOwner
    BY <1>3 DEF KeepsOwner, Active, CommunityInv, TypeOK
  <1>5. /\ pc' \in [Handlers -> PC] /\ job' \in [Handlers -> Job]
        /\ JobsOK' /\ Unborn' /\ OneOwner'
    <2>1. CASE Finish(h)
      BY <1>1, <1>3, <1>4, <2>1, FinishJobs
    <2>2. CASE ~Finish(h)
      <3>1. pc' = [pc EXCEPT ![h] = "add"] /\ job' = job /\ pc[h] = "respond"
        BY <2>2 DEF CreateInvite, SetInviteStatus, Goto
      <3>2. "add" \in PC /\ JobOK("add", job[h], member)
        BY <1>1, <3>1 DEF PC, JobOK
      <3>3. job' = [job EXCEPT ![h] = job[h]]
        BY <3>1 DEF CommunityInv, TypeOK
      <3>4. QED
        BY <1>1, <1>3, <1>4, <3>1, <3>2, <3>3, MoveJobs
    <2>3. QED
      BY <2>1, <2>2
  <1>6. QED
    BY <1>2, <1>3, <1>4, <1>5 DEF CommunityInv, TypeOK, content

(* What a call of the posts does to the jobs, whatever it does to a post. *)
LEMMA PostJobs ==
    ASSUME CommunityInv, NEW h \in Handlers, pc[h] # "idle", Finish(h),
           UNCHANGED members
    PROVE  /\ pc' \in [Handlers -> PC] /\ job' \in [Handlers -> Job]
           /\ JobsOK' /\ Unborn' /\ OneOwner'
           /\ visibility' \in Visibilities \cup {"none"}
           /\ memberCount' \in 0..MaxCount
           /\ member' \in [Users -> Member]
           /\ invites' \in [Invites -> Invite]
  <1>1. visibility # "none" /\ UNCHANGED <<visibility, memberCount, member, invites>>
    BY Knows DEF members
  <1>2. KeepsOwner /\ member' \in [Users -> Member]
    BY <1>1 DEF KeepsOwner, Active, CommunityInv, TypeOK
  <1>3. /\ pc' \in [Handlers -> PC] /\ job' \in [Handlers -> Job]
        /\ JobsOK' /\ Unborn' /\ OneOwner'
    BY <1>1, <1>2, FinishJobs
  <1>4. QED
    BY <1>1, <1>3 DEF CommunityInv, TypeOK

LEMMA PostSteps ==
    ASSUME CommunityInv, NEW h \in Handlers,
           InsertPost(h) \/ SoftDeletePost(h) \/ ReactCommit(h) \/ Unreact(h)
    PROVE  CommunityInv'
  <1>1. /\ pc[h] \in {"post", "delete", "react_commit", "unreact"}
        /\ job[h] \in Job /\ JobOK(pc[h], job[h], member)
        /\ Finish(h) /\ UNCHANGED members
    BY Knows DEF InsertPost, SoftDeletePost, ReactCommit, Unreact
  <1>2. /\ post' \in [Posts -> Post]
        /\ reacted' \in [Posts -> SUBSET Users]
        /\ reactionCount' \in [Posts -> Nat]
    <2> USE DEF CommunityInv, TypeOK, JobOK
    <2>1. CASE InsertPost(h)
      BY <1>1, <2>1 DEF InsertPost, Post
    <2>2. CASE SoftDeletePost(h)
      BY <1>1, <2>2 DEF SoftDeletePost, Post
    <2>3. CASE ReactCommit(h)
      BY <1>1, <2>3 DEF ReactCommit
    <2>4. CASE Unreact(h)
      BY <1>1, <2>4 DEF Unreact
    <2>5. QED
      BY <2>1, <2>2, <2>3, <2>4
  <1>3. QED
    BY <1>1, <1>2, PostJobs DEF CommunityInv, TypeOK

LEMMA AuthSteps ==
    ASSUME CommunityInv, NEW h \in Handlers,
           DeleteAuth(h) \/ ReactAuth(h) \/ ReactRead(h)
    PROVE  CommunityInv'
  <1>1. /\ pc[h] \in {"delete_auth", "react_auth", "react"}
        /\ job[h] \in Job /\ JobOK(pc[h], job[h], member)
        /\ visibility # "none" /\ UNCHANGED <<members, content>>
    BY Knows DEF DeleteAuth, ReactAuth, ReactRead
  <1>2. CASE Finish(h)
    BY <1>1, <1>2, LeaveAll
  <1>3. ASSUME NEW l \in {"delete", "react", "unreact"}, Goto(h, l),
               l = "delete" <=> pc[h] = "delete_auth"
        PROVE  CommunityInv'
    <2>1. l \in PC /\ JobOK(l, job[h], member)
      BY <1>1, <1>3 DEF PC, JobOK
    <2>2. job' = [job EXCEPT ![h] = job[h]] /\ pc' = [pc EXCEPT ![h] = l]
      BY <1>3 DEF Goto, CommunityInv, TypeOK
    <2>3. QED
      BY <1>1, <2>1, <2>2, KeepAll
  <1>4. CASE ReactRead(h)
    <2> DEFINE x == [job[h] EXCEPT !.flag = job[h].user \in reacted[job[h].id]]
    <2>1. (job[h].user \in reacted[job[h].id]) \in BOOLEAN
      OBVIOUS
    <2>2. x \in Job /\ "react_commit" \in PC
      BY <1>1, <2>1 DEF Job, PC
    <2>3. JobOK("react_commit", x, member)
      BY <1>1, <1>4 DEF JobOK, Job, ReactRead
    <2>4. pc' = [pc EXCEPT ![h] = "react_commit"] /\ job' = [job EXCEPT ![h] = x]
      BY <1>4 DEF ReactRead
    <2> HIDE DEF x
    <2>5. QED
      BY <1>1, <2>2, <2>3, <2>4, KeepAll
  <1>5. CASE DeleteAuth(h)
    BY <1>2, <1>3, <1>5 DEF DeleteAuth
  <1>6. CASE ReactAuth(h)
    BY <1>2, <1>3, <1>6 DEF ReactAuth
  <1>7. QED
    BY <1>4, <1>5, <1>6

LEMMA ModerateStep ==
    ASSUME CommunityInv, NEW p \in Posts, Moderate(p)
    PROVE  CommunityInv'
  <1>1. visibility # "none"
    BY Born DEF Moderate
  <1>2. post' \in [Posts -> Post]
    BY DEF Moderate, CommunityInv, TypeOK, Post
  <1>3. JobsOK' /\ Unborn' /\ OneOwner'
    BY <1>1 DEF Moderate, CommunityInv, JobsOK, JobOK, Unborn, OneOwner,
       IsOwner, Active, members
  <1>4. QED
    BY <1>2, <1>3 DEF Moderate, CommunityInv, TypeOK, members

LEMMA NextKeepsCommunityInv ==
    ASSUME CommunityInv, [Next]_vars
    PROVE  CommunityInv'
  <1>1. CASE UNCHANGED vars
    BY <1>1 DEF vars, members, content, CommunityInv, TypeOK, JobsOK, JobOK,
       Unborn, OneOwner, IsOwner, Active
  <1>2. ASSUME NEW h \in Handlers, MemberStep(h) PROVE CommunityInv'
    BY <1>2, RowSteps, IncMemberCountStep, ReadTargetStep, SetMemberRoleStep,
       InviteSteps DEF MemberStep
  <1>3. ASSUME NEW h \in Handlers, PostStep(h) PROVE CommunityInv'
    BY <1>3, PostSteps, AuthSteps DEF PostStep
  <1>4. QED
    BY <1>1, <1>2, <1>3, CreateStep, MemberCallStep, PostingCallStep,
       ModerateStep DEF Next

LEMMA InitCommunityInv == Init => CommunityInv
  <1> SUFFICES ASSUME Init PROVE CommunityInv
    OBVIOUS
  <1>1. TypeOK
    BY NoJobType DEF Init, TypeOK, PC, Member, Invite, Post
  <1>2. JobsOK /\ Unborn /\ OneOwner
    BY DEF Init, JobsOK, JobOK, Unborn, OneOwner
  <1>3. QED
    BY <1>1, <1>2 DEF CommunityInv

-----------------------------------------------------------------------------
(* The invariant behind the others: whatever overlaps, a call that is about *)
(* to delete a membership row or to change a role never holds the owner.   *)
THEOREM CommunityInvariant == Spec => []CommunityInv
  BY InitCommunityInv, NextKeepsCommunityInv, PTL DEF Spec

(* Every variable of a community keeps its type, the counter included. *)
THEOREM CommunitiesTypeSafe == Spec => []TypeOK
  <1>1. CommunityInv => TypeOK
    BY DEF CommunityInv
  <1>2. QED
    BY <1>1, CommunityInvariant, PTL

(* A community has exactly one owner, an active member, for ever: neither  *)
(* leave, removeMember, changeRole nor joining again reaches that row.     *)
THEOREM OwnerCorrect == Spec => []OneOwner
  <1>1. CommunityInv => OneOwner
    BY DEF CommunityInv
  <1>2. QED
    BY <1>1, CommunityInvariant, PTL

-----------------------------------------------------------------------------
(* The counter of the reactions.  It is inductive with the finiteness of   *)
(* the set it counts.                                                      *)
FiniteReactions == \A p \in Posts : IsFiniteSet(reacted[p])

LEMMA ReactionStep ==
    ASSUME CommunityInv, FiniteReactions, ReactionsExact, [Next]_vars
    PROVE  (FiniteReactions /\ ReactionsExact)'
  <1> USE DEF CommunityInv, TypeOK, FiniteReactions, ReactionsExact
  <1>1. CASE UNCHANGED <<reacted, reactionCount>>
    BY <1>1
  <1>2. ASSUME NEW h \in Handlers, ReactCommit(h)
        PROVE  (FiniteReactions /\ ReactionsExact)'
    <2> DEFINE p == job[h].id
               R == reacted[p] \cup {job[h].user}
    <2>1. p \in Posts
      BY <1>2, Knows DEF ReactCommit, JobOK
    <2>2. CASE UNCHANGED <<reacted, reactionCount>>
      BY <2>2
    <2>3. CASE job[h].user \notin reacted[p]
               /\ reacted' = [reacted EXCEPT ![p] = R]
               /\ reactionCount' = [reactionCount EXCEPT ![p] = @ + 1]
      <3>1. IsFiniteSet(R) /\ Cardinality(R) = Cardinality(reacted[p]) + 1
        BY <2>1, <2>3, FS_AddElement
      <3> HIDE DEF R
      <3>2. QED
        BY <2>1, <2>3, <3>1
    <2>4. QED
      BY <1>2, <2>2, <2>3 DEF ReactCommit
  <1>3. ASSUME NEW h \in Handlers, Unreact(h)
        PROVE  (FiniteReactions /\ ReactionsExact)'
    <2> DEFINE p == job[h].id
               R == reacted[p] \ {job[h].user}
    <2>1. p \in Posts
      BY <1>3, Knows DEF Unreact, JobOK
    <2>2. CASE UNCHANGED <<reacted, reactionCount>>
      BY <2>2
    <2>3. CASE /\ job[h].user \in reacted[p]
               /\ reacted' = [reacted EXCEPT ![p] = R]
               /\ reactionCount' = [reactionCount EXCEPT ![p] =
                                       IF @ > 0 THEN @ - 1 ELSE 0]
      <3>1. IsFiniteSet(R) /\ Cardinality(R) = Cardinality(reacted[p]) - 1
        <4>1. IsFiniteSet(reacted[p]) /\ job[h].user \in reacted[p]
          BY <2>1, <2>3
        <4>2. Cardinality(reacted[p]) \in Nat
          BY <4>1, FS_CardinalityType
        <4>3. QED
          BY <4>1, <4>2, FS_RemoveElement
      <3>2. Cardinality(R) \in Nat
        BY <3>1, FS_CardinalityType
      <3> HIDE DEF R
      <3>3. reactionCount[p] > 0 /\ reactionCount[p] - 1 = Cardinality(R)
        BY <2>1, <3>1, <3>2
      <3>4. QED
        BY <2>1, <2>3, <3>1, <3>3
    <2>4. QED
      BY <1>3, <2>2, <2>3 DEF Unreact
  <1>4. QED
    BY <1>1, <1>2, <1>3 DEF Next, vars, content, MemberCall, PostingCall,
       MemberStep, PostStep, Create, Join, Leave, ModeratorCall, ChangeRole,
       RespondInvite, CreatePost, PostCall, AddMember, RemoveMember,
       IncMemberCount, ReadTarget, ApproveMember, SetMemberRole, CreateInvite,
       SetInviteStatus, InsertPost, DeleteAuth, SoftDeletePost, ReactAuth,
       ReactRead, Moderate

(* A post's counter is the number of users whose reaction is stored, also  *)
(* between two transactions that overlapped.                               *)
THEOREM ReactionsCorrect == Spec => []ReactionsExact
  <1>1. Init => FiniteReactions /\ ReactionsExact
    BY FS_EmptySet DEF Init, FiniteReactions, ReactionsExact
  <1>2. CommunityInv /\ (FiniteReactions /\ ReactionsExact) /\ [Next]_vars
           => (FiniteReactions /\ ReactionsExact)'
    BY ReactionStep
  <1>3. QED
    BY <1>1, <1>2, CommunityInvariant, PTL DEF Spec

-----------------------------------------------------------------------------
(* InviteOnlyIsClosed and SilentOutside, by the steps that may disturb      *)
(* them.  A call that is not bringing in u makes no row and no invitation. *)
LEMMA StaysRowless ==
    ASSUME CommunityInv, NEW h \in Handlers, NEW u \in Users, Outside(u),
           MemberStep(h)
    PROVE  Outside(u)'
  <1> USE DEF CommunityInv, TypeOK
  <1>1. /\ ~HasRow(u) /\ PendingInvites(u) = {}
        /\ \A q \in Handlers : ~Incoming(q, u)
    BY DEF Outside
  <1>2. /\ JobOK(pc[h], job[h], member) /\ job[h] \in Job
        /\ ~Incoming(h, u)
    BY <1>1, Knows
  <1>3. ~HasRow(u)'
    <2>1. CASE AddMember(h)
      <3>1. job[h].about # u
        BY <1>2, <2>1 DEF AddMember, Incoming
      <3>2. QED
        BY <1>1, <2>1, <3>1 DEF AddMember, HasRow
    <2>2. CASE RemoveMember(h)
      BY <1>1, <2>2 DEF RemoveMember, HasRow, NoMember
    <2>3. CASE ApproveMember(h) \/ SetMemberRole(h)
      BY <1>1, <2>3 DEF ApproveMember, SetMemberRole, HasRow
    <2>4. CASE UNCHANGED member
      BY <1>1, <2>4 DEF HasRow
    <2>5. QED
      BY <2>1, <2>2, <2>3, <2>4 DEF MemberStep, IncMemberCount, ReadTarget,
         CreateInvite, SetInviteStatus, members
  <1>4. PendingInvites(u)' = {}
    <2>1. CASE CreateInvite(h)
      <3>1. job[h].about # u
        BY <1>2, <2>1 DEF CreateInvite, Incoming
      <3>2. \A i \in Invites : invites'[i] = invites[i] \/ invites'[i].invitee # u
        BY <2>1, <3>1 DEF CreateInvite
      <3>3. QED
        BY <1>1, <3>2 DEF PendingInvites
    <2>2. CASE SetInviteStatus(h)
      <3>1. \A i \in Invites :
               \/ invites'[i] = invites[i]
               \/ invites'[i].status \in {"accepted", "declined"}
        BY <2>2 DEF SetInviteStatus, Invite
      <3>2. QED
        BY <1>1, <3>1 DEF PendingInvites
    <2>3. CASE invites' = invites
      BY <1>1, <2>3 DEF PendingInvites
    <2>4. QED
      BY <2>1, <2>2, <2>3 DEF MemberStep, AddMember, RemoveMember,
         IncMemberCount, ReadTarget, ApproveMember, SetMemberRole, members
  <1>5. \A q \in Handlers : q # h => ~Incoming(q, u)'
    BY <1>1 DEF MemberStep, AddMember, RemoveMember, IncMemberCount, ReadTarget,
       ApproveMember, SetMemberRole, CreateInvite, SetInviteStatus, Finish,
       Goto, Count, Incoming
  <1>6. ~Incoming(h, u)'
    <2>1. CASE Finish(h)
      BY <2>1 DEF Finish, Incoming
    <2>2. CASE Count(h, 1) \/ Count(h, -1)
      BY <2>2 DEF Count, Incoming
    <2>3. CASE SetInviteStatus(h) /\ Goto(h, "add")
      <3>1. pc[h] = "respond" /\ job' = job
        BY <2>3 DEF SetInviteStatus, Goto
      <3>2. QED
        BY <1>2, <3>1 DEF Incoming
    <2>4. CASE ReadTarget(h) /\ ~Finish(h)
      <3> DEFINE x == [NoJob EXCEPT
                    !.about = job[h].about, !.role = job[h].role,
                    !.status = IF job[h].does = "kick"
                                  THEN member[job[h].about].status ELSE "active"]
      <3>a. /\ pc[h] = "target" /\ job' = [job EXCEPT ![h] = x]
            /\ pc' = [pc EXCEPT ![h] = IF job[h].does = "kick" THEN "remove"
                                                            ELSE job[h].does]
        BY <2>4 DEF ReadTarget
      <3>b. x.about = job[h].about
        BY DEF NoJob
      <3> HIDE DEF x
      <3>1. /\ pc[h] = "target" /\ job'[h].about = job[h].about
            /\ pc'[h] = IF job[h].does = "kick" THEN "remove" ELSE job[h].does
        BY <3>a, <3>b
      <3>2. job[h].does \in {"approve", "role", "kick", "invite"}
        BY <1>2, <3>1 DEF JobOK
      <3>3. QED
        BY <1>2, <3>1, <3>2 DEF Incoming
    <2>5. QED
      BY <2>1, <2>2, <2>3, <2>4 DEF MemberStep, AddMember, RemoveMember,
         IncMemberCount, ApproveMember, SetMemberRole, CreateInvite,
         SetInviteStatus
  <1>7. QED
    BY <1>3, <1>4, <1>5, <1>6 DEF Outside

(* A call about u that starts while u is outside of an invite-only         *)
(* community can only be somebody's invitation.                            *)
LEMMA StaysOut ==
    ASSUME CommunityInv, NEW h \in Handlers, NEW u \in Users, Outside(u),
           visibility = "invite", MemberCall(h) \/ PostingCall(h),
           ~Outside(u)'
    PROVE  \E m \in Users : /\ IsModerator(m)
                            /\ pc[h] = "idle"
                            /\ job'[h].user = m
  <1> USE DEF CommunityInv, TypeOK
  <1>1. /\ ~HasRow(u) /\ PendingInvites(u) = {}
        /\ \A q \in Handlers : ~Incoming(q, u)
    BY DEF Outside
  <1>2. PICK l, x : Start(h, l, x) /\ UNCHANGED <<members, content>>
    BY DEF MemberCall, PostingCall, Join, Leave, ModeratorCall, ChangeRole,
       RespondInvite, CreatePost, PostCall
  <1>3. ~HasRow(u)' /\ PendingInvites(u)' = {}
    BY <1>1, <1>2 DEF members, HasRow, PendingInvites
  <1>4. \A q \in Handlers : q # h => ~Incoming(q, u)'
    BY <1>1, <1>2 DEF Start, Incoming
  <1>5. Incoming(h, u)'
    BY <1>3, <1>4 DEF Outside
  <1>6. /\ job'[h].about = u
        /\ \/ pc'[h] \in {"add", "invite", "respond"}
           \/ pc'[h] = "target" /\ job'[h].does = "invite"
    BY <1>5 DEF Incoming
  <1>7. ASSUME PostingCall(h) PROVE FALSE
    <2>1. pc'[h] \in {"post", "delete_auth", "react_auth"}
      BY <1>7 DEF PostingCall, CreatePost, PostCall, Start
    <2>2. QED
      BY <1>6, <2>1
  <1>8. PICK w \in Users :
            \/ Join(h, w) \/ Leave(h, w)
            \/ \E v \in Users, does \in {"approve", "kick", "invite"} :
                  ModeratorCall(h, w, v, does)
            \/ \E v \in Users, role \in {"moderator", "member"} :
                  ChangeRole(h, w, v, role)
            \/ \E i \in Invites, accept \in BOOLEAN : RespondInvite(h, w, i, accept)
    BY <1>7 DEF MemberCall
  <1>9. ASSUME Join(h, w) PROVE FALSE
    BY <1>9 DEF Join
  <1>10. ASSUME Leave(h, w) PROVE FALSE
    BY <1>6, <1>10 DEF Leave, Start
  <1>11. ASSUME NEW v \in Users, NEW does \in {"approve", "kick", "invite"},
                ModeratorCall(h, w, v, does)
         PROVE  IsModerator(w) /\ pc[h] = "idle" /\ job'[h].user = w
    BY <1>11 DEF ModeratorCall, Start, NoJob
  <1>12. ASSUME NEW v \in Users, NEW role \in {"moderator", "member"},
                ChangeRole(h, w, v, role)
         PROVE  FALSE
    <2>1. pc'[h] = "target" /\ job'[h].does = "role"
      BY <1>12 DEF ChangeRole, Start, NoJob
    <2>2. QED
      BY <1>6, <2>1
  <1>13. ASSUME NEW i \in Invites, NEW accept \in BOOLEAN,
                RespondInvite(h, w, i, accept)
         PROVE  FALSE
    <2>1. job'[h].about = w /\ i \in PendingInvites(w)
      BY <1>13 DEF RespondInvite, Start, NoJob
    <2>2. QED
      BY <1>1, <1>6, <2>1
  <1>14. QED
    BY <1>8, <1>9, <1>10, <1>11, <1>12, <1>13

(* In an invite-only community whoever has neither a row nor an invitation *)
(* stays out until somebody who moderates it at that moment starts a call. *)
THEOREM InviteOnlyCorrect == Spec => InviteOnlyIsClosed
  <1> DEFINE Closed ==
                visibility = "invite" =>
                  \A u \in Users :
                      Outside(u) /\ ~Outside(u)' =>
                          \E h \in Handlers, m \in Users :
                              /\ IsModerator(m)
                              /\ pc[h] = "idle"
                              /\ job'[h].user = m
  <1>1. ASSUME CommunityInv, [Next]_vars, visibility = "invite",
               NEW u \in Users, Outside(u), ~Outside(u)'
        PROVE  \E h \in Handlers, m \in Users :
                   IsModerator(m) /\ pc[h] = "idle" /\ job'[h].user = m
    <2>1. ASSUME UNCHANGED <<pc, job, members>> PROVE FALSE
      BY <1>1, <2>1 DEF Outside, Incoming, HasRow, PendingInvites, members
    <2>2. ASSUME NEW h \in Handlers, PostStep(h) PROVE FALSE
      <3>1. UNCHANGED members /\ \A q \in Handlers : q # h =>
               pc'[q] = pc[q] /\ job'[q] = job[q]
        BY <2>2, <1>1 DEF PostStep, InsertPost, DeleteAuth, SoftDeletePost,
           ReactAuth, ReactRead, ReactCommit, Unreact, Finish, Goto,
           CommunityInv, TypeOK
      <3>2. pc'[h] \in {"done", "delete", "react", "unreact", "react_commit"}
        BY <2>2, <1>1 DEF PostStep, InsertPost, DeleteAuth, SoftDeletePost,
           ReactAuth, ReactRead, ReactCommit, Unreact, Finish, Goto,
           CommunityInv, TypeOK
      <3>3. QED
        BY <1>1, <3>1, <3>2 DEF Outside, Incoming, HasRow, PendingInvites, members
    <2>3. ASSUME NEW v \in Users, Create(v) PROVE FALSE
      BY <1>1, <2>3 DEF Create
    <2>4. ASSUME NEW p \in Posts, Moderate(p) PROVE FALSE
      BY <2>1, <2>4 DEF Moderate
    <2>5. QED
      BY <1>1, <2>1, <2>2, <2>3, <2>4, StaysRowless, StaysOut DEF Next, vars
  <1>2. CommunityInv /\ [Next]_vars => [Closed]_vars
    BY <1>1
  <1>3. QED
    BY <1>2, CommunityInvariant, PTL DEF Spec, InviteOnlyIsClosed

-----------------------------------------------------------------------------
(* While u stays outside, only an admitted call of u works on its posts    *)
(* and reactions, and admission takes an active member.                    *)
LEMMA SilentStep ==
    ASSUME CommunityInv, NEW h \in Handlers, NEW u \in Users,
           ~Active(u), ~Admitted(u), MemberStep(h) \/ PostStep(h)
    PROVE  /\ ~Admitted(u)'
           /\ \A p \in Posts :
                 /\ post'[p].author = u => post[p].author = u
                 /\ u \in reacted'[p] <=> u \in reacted[p]
  <1> USE DEF CommunityInv, TypeOK
  <1>1. u # NoUser /\ pc[h] \in PC /\ job[h] \in Job /\ JobOK(pc[h], job[h], member)
    BY Knows
  <1>2. \A q \in Handlers :
            job[q].user = u =>
                pc[q] \notin {"post", "react", "react_commit", "unreact"}
    BY DEF Admitted
  <1>3. CASE MemberStep(h)
    <2>1. post' = post /\ reacted' = reacted
      BY <1>3 DEF MemberStep, AddMember, RemoveMember, IncMemberCount,
         ReadTarget, ApproveMember, SetMemberRole, CreateInvite,
         SetInviteStatus, content
    <2>2. \A q \in Handlers : q # h => pc'[q] = pc[q] /\ job'[q] = job[q]
      BY <1>3 DEF MemberStep, AddMember, RemoveMember, IncMemberCount,
         ReadTarget, ApproveMember, SetMemberRole, CreateInvite,
         SetInviteStatus, Finish, Goto, Count
    <2>3. ReadTarget(h) => job[h].does \in {"approve", "role", "kick", "invite"}
      BY <1>1 DEF ReadTarget, JobOK
    <2>4. pc'[h] \in {"done", "count", "add", "remove", "approve", "role", "invite"}
      BY <1>3, <2>3 DEF MemberStep, AddMember, RemoveMember, IncMemberCount,
         ReadTarget, ApproveMember, SetMemberRole, CreateInvite,
         SetInviteStatus, Finish, Goto, Count
    <2>5. QED
      BY <1>2, <2>1, <2>2, <2>4 DEF Admitted
  <1>4. CASE PostStep(h)
    <2>1. \A q \in Handlers : q # h => pc'[q] = pc[q] /\ job'[q] = job[q]
      BY <1>4 DEF PostStep, InsertPost, DeleteAuth, SoftDeletePost,
         ReactAuth, ReactRead, ReactCommit, Unreact, Finish, Goto
    <2>2. ~Admitted(u)'
      <3>1. CASE Finish(h)
        <4>1. job'[h].user = NoUser
          BY <3>1 DEF Finish, NoJob
        <4>2. QED
          BY <1>1, <1>2, <2>1, <4>1 DEF Admitted
      <3>2. CASE DeleteAuth(h) /\ Goto(h, "delete")
        BY <1>2, <2>1, <3>2 DEF Goto, Admitted
      <3>3. CASE ReactAuth(h) /\ (Goto(h, "react") \/ Goto(h, "unreact"))
        <4>1. job[h].user # u \/ Finish(h)
          BY <3>3 DEF ReactAuth
        <4>2. QED
          BY <1>2, <2>1, <3>1, <3>3, <4>1 DEF Goto, Admitted
      <3>4. CASE ReactRead(h)
        BY <1>2, <2>1, <3>4 DEF ReactRead, Admitted, Job
      <3>5. QED
        BY <1>4, <3>1, <3>2, <3>3, <3>4 DEF PostStep, InsertPost, DeleteAuth,
           SoftDeletePost, ReactAuth, ReactCommit, Unreact
    <2>3. ASSUME NEW p \in Posts
          PROVE  /\ post'[p].author = u => post[p].author = u
                 /\ u \in reacted'[p] <=> u \in reacted[p]
      <3>1. CASE InsertPost(h)
        <4>1. job[h].user # u /\ reacted' = reacted
          BY <1>2, <3>1 DEF InsertPost
        <4>2. QED
          BY <3>1, <4>1 DEF InsertPost
      <3>2. CASE SoftDeletePost(h)
        BY <3>2 DEF SoftDeletePost, Post
      <3>3. CASE ReactCommit(h) \/ Unreact(h)
        <4>1. job[h].user # u /\ post' = post
          BY <1>2, <3>3 DEF ReactCommit, Unreact
        <4>2. QED
          BY <3>3, <4>1 DEF ReactCommit, Unreact
      <3>4. CASE DeleteAuth(h) \/ ReactAuth(h) \/ ReactRead(h)
        BY <3>4 DEF DeleteAuth, ReactAuth, ReactRead, content
      <3>5. QED
        BY <1>4, <3>1, <3>2, <3>3, <3>4 DEF PostStep
    <2>4. QED
      BY <2>2, <2>3
  <1>5. QED
    BY <1>3, <1>4

LEMMA SilentStart ==
    ASSUME CommunityInv, NEW h \in Handlers, NEW u \in Users,
           ~Active(u), ~Admitted(u), MemberCall(h) \/ PostingCall(h)
    PROVE  ~Admitted(u)' /\ UNCHANGED content
  <1> USE DEF CommunityInv, TypeOK
  <1>1. PICK l, x : Start(h, l, x) /\ UNCHANGED <<members, content>>
    BY DEF MemberCall, PostingCall, Join, Leave, ModeratorCall, ChangeRole,
       RespondInvite, CreatePost, PostCall
  <1>2. \A q \in Handlers : q # h => pc'[q] = pc[q] /\ job'[q] = job[q]
    BY <1>1 DEF Start
  <1>3. CASE MemberCall(h)
    <2>1. pc'[h] \in {"add", "remove", "target", "respond"}
      BY <1>3 DEF MemberCall, Join, Leave, ModeratorCall, ChangeRole,
         RespondInvite, Start
    <2>2. QED
      BY <1>1, <1>2, <2>1 DEF Admitted
  <1>4. CASE PostingCall(h)
    <2>1. \/ pc'[h] \in {"delete_auth", "react_auth"}
          \/ \E v \in Users : Active(v) /\ job'[h].user = v
      <3>1. ASSUME NEW v \in Users, NEW announcement \in BOOLEAN,
                   CreatePost(h, v, announcement)
            PROVE  Active(v) /\ job'[h].user = v
        BY <3>1 DEF CreatePost, Start, NoJob
      <3>2. ASSUME NEW v \in Users, NEW p \in Posts,
                   NEW m \in {"delete_auth", "react_auth", "unreact_auth"},
                   PostCall(h, v, p, m)
            PROVE  pc'[h] \in {"delete_auth", "react_auth"}
        BY <3>2 DEF PostCall, Start
      <3>3. QED
        BY <1>4, <3>1, <3>2 DEF PostingCall
    <2>2. QED
      BY <1>1, <1>2, <2>1 DEF Admitted
  <1>5. QED
    BY <1>1, <1>3, <1>4

(* Once no admitted call of u is under way, who is no active member        *)
(* publishes no post, and no reaction of u appears or goes.                *)
THEOREM SilentCorrect == Spec => SilentOutside
  <1> DEFINE Silent == \A u \in Users :
                /\ ~Active(u) /\ ~Active(u)' /\ ~Admitted(u)
                => /\ ~Admitted(u)'
                   /\ \A p \in Posts :
                         /\ post'[p].author = u => post[p].author = u
                         /\ u \in reacted'[p] <=> u \in reacted[p]
  <1>1. ASSUME CommunityInv, [Next]_vars, NEW u \in Users,
               ~Active(u), ~Admitted(u)
        PROVE  /\ ~Admitted(u)'
               /\ \A p \in Posts :
                     /\ post'[p].author = u => post[p].author = u
                     /\ u \in reacted'[p] <=> u \in reacted[p]
    <2>1. CASE UNCHANGED <<pc, job, content>>
      BY <1>1, <2>1 DEF Admitted, content
    <2>2. ASSUME NEW p \in Posts, Moderate(p)
          PROVE  /\ ~Admitted(u)'
                 /\ \A q \in Posts :
                       /\ post'[q].author = u => post[q].author = u
                       /\ u \in reacted'[q] <=> u \in reacted[q]
      BY <1>1, <2>2 DEF Moderate, Admitted, CommunityInv, TypeOK, Post
    <2>3. QED
      BY <1>1, <2>1, <2>2, SilentStep, SilentStart DEF Next, vars, Create, content
  <1>2. CommunityInv /\ [Next]_vars => [Silent]_vars
    BY <1>1
  <1>3. QED
    BY <1>2, CommunityInvariant, PTL DEF Spec, SilentOutside

-----------------------------------------------------------------------------
(***************************************************************************)
(* The member counter.  CountInv says, of the behaviours in which all      *)
(* calls so far took turns and nobody with a row accepted an invitation,   *)
(* what each call still knows of the row it is about when it writes it.    *)
(***************************************************************************)
ActiveMembers == {u \in Users : Active(u)}

(* The row that a call at l with locals x has read is still so in m. *)
CountOK(l, x, m) ==
    /\ l = "add" => x.does = "join" \/ x.id # NoId
    /\ l = "add" /\ x.does = "join" /\ x.status = "active" =>
          visibility = "public" /\ m[x.about].role = "none"
    /\ l = "add" /\ visibility = "public" => x.status = "active"
    /\ l = "remove" => m[x.about].status = x.status
    /\ l = "approve" => m[x.about].status = "pending"
    /\ l = "count" /\ x.delta = 1 => m[x.about].status = "active"
    /\ l = "respond" => x.status = "active" /\ x.does = "none"

CountsOK == \A h \in Handlers : CountOK(pc[h], job[h], member)

(* Nobody waits for the approval of a public community. *)
NoneWaits == visibility = "public" => \A u \in Users : member[u].status # "pending"

Counted ==
    /\ IsFiniteSet(ActiveMembers)
    /\ CountsOK
    /\ NoneWaits
    /\ CountSettles

Orderly == TakeTurns /\ NewcomersAccept /\ Counted

CountInv == orderly => Orderly

LEMMA CountingType ==
    /\ IsFiniteSet(Counting(1)) /\ Cardinality(Counting(1)) \in Nat
    /\ IsFiniteSet(Counting(-1)) /\ Cardinality(Counting(-1)) \in Nat
  <1>1. IsFiniteSet(Handlers)
    BY FS_Interval DEF Handlers
  <1>2. Counting(1) \in SUBSET Handlers /\ Counting(-1) \in SUBSET Handlers
    BY DEF Counting
  <1>3. IsFiniteSet(Counting(1)) /\ IsFiniteSet(Counting(-1))
    BY <1>1, <1>2, FS_Subset
  <1>4. QED
    BY <1>3, FS_CardinalityType

(* Nobody else writes the row that a call has read. *)
LEMMA OthersKnow ==
    ASSUME CommunityInv, TakeTurns, CountsOK, NEW h \in Handlers, NEW l, NEW x,
           pc' = [pc EXCEPT ![h] = l], job' = [job EXCEPT ![h] = x],
           UNCHANGED visibility, CountOK(l, x, member'),
           \A u \in Users : u # job[h].about => member'[u] = member[u]
    PROVE  CountsOK'
  <1> USE DEF CommunityInv, TypeOK
  <1>1. ASSUME NEW q \in Handlers PROVE CountOK(pc[q], job[q], member)'
    <2>1. CASE q = h
      BY <2>1 DEF CountOK
    <2>2. CASE q # h
      <3>1. pc'[q] = pc[q] /\ job'[q] = job[q]
        BY <2>2
      <3>2. CountOK(pc[q], job[q], member) /\ JobOK(pc[q], job[q], member)
        BY Knows DEF CountsOK
      <3>3. pc[q] \in {"add", "remove", "approve", "count"} =>
                member'[job[q].about] = member[job[q].about]
        <4>1. SUFFICES ASSUME pc[q] \in {"add", "remove", "approve", "count"}
                       PROVE  member'[job[q].about] = member[job[q].about]
          OBVIOUS
        <4>2. job[q].about \in Users
          BY <3>2, <4>1 DEF JobOK
        <4>3. job[q].about # job[h].about
          BY <2>2, <4>2 DEF TakeTurns, Working
        <4>4. QED
          BY <4>2, <4>3
      <3>4. QED
        BY <3>1, <3>2, <3>3 DEF CountOK
    <2>3. QED
      BY <2>1, <2>2
  <1>2. QED
    BY <1>1 DEF CountsOK

(* A call that neither enters nor leaves the counter and changes nobody's  *)
(* activity. *)
LEMMA Uncounted ==
    ASSUME CommunityInv, Orderly, NEW h \in Handlers, NEW l, NEW x,
           pc' = [pc EXCEPT ![h] = l], job' = [job EXCEPT ![h] = x],
           pc[h] # "count", l # "count",
           UNCHANGED <<visibility, memberCount>>, CountOK(l, x, member'),
           \A u \in Users : u # job[h].about => member'[u] = member[u],
           ActiveMembers' = ActiveMembers
    PROVE  CountsOK' /\ CountSettles'
  <1>1. CountsOK'
    BY OthersKnow DEF Orderly, Counted
  <1>2. Counting(1)' = Counting(1) /\ Counting(-1)' = Counting(-1)
    BY DEF Counting, CommunityInv, TypeOK
  <1>3. CountSettles'
    BY <1>2 DEF Orderly, Counted, CountSettles, ActiveMembers
  <1>4. QED
    BY <1>1, <1>3

(* A call that has made one more member active, or one fewer, and will     *)
(* count it. *)
LEMMA ToCount ==
    ASSUME CommunityInv, Orderly,
           NEW h \in Handlers, NEW d \in {-1, 1}, Count(h, d),
           visibility # "none", pc[h] # "count",
           UNCHANGED <<visibility, memberCount>>,
           \A u \in Users : u # job[h].about => member'[u] = member[u],
           job[h].about \in Users,
           member'[job[h].about].status = "active" <=> d = 1,
           member[job[h].about].status = "active" <=> d = -1
    PROVE  CountsOK' /\ CountSettles' /\ IsFiniteSet(ActiveMembers')
  <1> DEFINE w == job[h].about
             x == [job[h] EXCEPT !.delta = d]
  <1>1. job[h] \in Job /\ pc[h] \in PC
    BY Knows
  <1>2. x.delta = d /\ x.about = w
    BY <1>1 DEF Job
  <1>3. pc' = [pc EXCEPT ![h] = "count"] /\ job' = [job EXCEPT ![h] = x]
    BY DEF Count
  <1> HIDE DEF x
  <1>4. CountOK("count", x, member')
    BY <1>2 DEF CountOK, Active
  <1>5. CountsOK'
    BY <1>3, <1>4, OthersKnow DEF Orderly, Counted
  <1>6. h \notin Counting(1) /\ h \notin Counting(-1)
    BY DEF Counting
  <1>7. \A e \in {-1, 1} : Counting(e)' = IF e = d THEN Counting(e) \cup {h}
                                                    ELSE Counting(e)
    BY <1>2, <1>3, <1>6 DEF Counting, CommunityInv, TypeOK
  <1>8. /\ \A v \in Users : v # w => (Active(v)' <=> Active(v))
        /\ w \in ActiveMembers' <=> d = 1
        /\ w \in ActiveMembers <=> d = -1
    BY DEF Active, ActiveMembers
  <1>9. Cardinality(ActiveMembers) \in Nat
    BY FS_CardinalityType DEF Orderly, Counted
  <1>10. CASE d = 1
    <2>1. ActiveMembers' = ActiveMembers \cup {w} /\ w \notin ActiveMembers
      BY <1>8, <1>10 DEF ActiveMembers
    <2>2. /\ IsFiniteSet(ActiveMembers')
          /\ Cardinality(ActiveMembers') = Cardinality(ActiveMembers) + 1
      BY <2>1, FS_AddElement DEF Orderly, Counted
    <2>3. Counting(1)' = Counting(1) \cup {h} /\ Counting(-1)' = Counting(-1)
      BY <1>7, <1>10
    <2>4. Cardinality(Counting(1)') = Cardinality(Counting(1)) + 1
      BY <1>6, <2>3, CountingType, FS_AddElement
    <2>5. memberCount \in Nat
      BY DEF CommunityInv, TypeOK
    <2>6. CountSettles'
      BY <1>9, <2>2, <2>3, <2>4, <2>5, CountingType
         DEF Orderly, Counted, CountSettles, ActiveMembers
    <2>7. QED
      BY <1>5, <2>2, <2>6
  <1>11. CASE d = -1
    <2>1. ActiveMembers' = ActiveMembers \ {w} /\ w \in ActiveMembers
      BY <1>8, <1>11 DEF ActiveMembers
    <2>2. /\ IsFiniteSet(ActiveMembers')
          /\ Cardinality(ActiveMembers') = Cardinality(ActiveMembers) - 1
      BY <1>9, <2>1, FS_RemoveElement DEF Orderly, Counted
    <2>3. Counting(-1)' = Counting(-1) \cup {h} /\ Counting(1)' = Counting(1)
      BY <1>7, <1>11
    <2>4. Cardinality(Counting(-1)') = Cardinality(Counting(-1)) + 1
      BY <1>6, <2>3, CountingType, FS_AddElement
    <2>5. memberCount \in Nat
      BY DEF CommunityInv, TypeOK
    <2>6. CountSettles'
      BY <1>9, <2>2, <2>3, <2>4, <2>5, CountingType
         DEF Orderly, Counted, CountSettles, ActiveMembers
    <2>7. QED
      BY <1>5, <2>2, <2>6
  <1>12. QED
    BY <1>10, <1>11

(* Calls that count a new member are about different active members, so    *)
(* that the counter is never asked to go below zero. *)
LEMMA CountBounded ==
    ASSUME CommunityInv, Orderly
    PROVE  Cardinality(Counting(1)) <= Cardinality(ActiveMembers)
  <1> DEFINE f == [q \in Counting(1) |-> job[q].about]
  <1>1. \A q \in Counting(1) : q \in Handlers /\ job[q].about \in ActiveMembers
    <2>1. SUFFICES ASSUME NEW q \in Handlers, pc[q] = "count", job[q].delta = 1
                   PROVE  job[q].about \in ActiveMembers
      BY DEF Counting
    <2>2. job[q].about \in Users
      BY <2>1, Knows DEF JobOK
    <2>3. QED
      BY <2>1, <2>2 DEF Orderly, Counted, CountsOK, CountOK, ActiveMembers, Active
  <1>2. \A g, q \in Counting(1) : f[g] = f[q] => g = q
    BY <1>1 DEF Orderly, TakeTurns, Working, ActiveMembers
  <1>3. f \in Injection(Counting(1), ActiveMembers)
    BY <1>1, <1>2 DEF Injection, IsInjective
  <1>4. QED
    BY <1>3, FS_Injection DEF Orderly, Counted

LEMMA AddCounted ==
    ASSUME CommunityInv, Orderly, NEW h \in Handlers, AddMember(h)
    PROVE  Counted'
  <1> DEFINE w == job[h].about
  <1>1. /\ pc[h] = "add" /\ w \in Users /\ job[h] \in Job
        /\ visibility # "none" /\ UNCHANGED <<visibility, memberCount>>
    BY Knows DEF AddMember, JobOK
  <1>2. CountOK("add", job[h], member)
    BY <1>1 DEF Orderly, Counted, CountsOK
  <1>3. \A u \in Users : u # w => member'[u] = member[u]
    BY DEF AddMember, CommunityInv, TypeOK
  <1>4. CASE job[h].status = "active"
    <2>1. ~HasRow(w)
      BY <1>1, <1>2, <1>4 DEF Orderly, NewcomersAccept, CountOK, HasRow
    <2>2. member[w].status = "none"
      BY <1>1, <2>1, MemberParts
    <2>3. member'[w].status = "active"
      BY <1>1, <1>4, <2>1 DEF AddMember, CommunityInv, TypeOK
    <2>4. Count(h, 1)
      BY <1>4 DEF AddMember
    <2>5. CountsOK' /\ CountSettles' /\ IsFiniteSet(ActiveMembers')
      BY <1>1, <1>3, <2>2, <2>3, <2>4, ToCount
    <2>6. NoneWaits'
      BY <1>1, <1>3, <2>3 DEF Orderly, Counted, NoneWaits
    <2>7. QED
      BY <2>5, <2>6 DEF Counted
  <1>5. CASE job[h].status = "pending"
    <2>1. Finish(h) /\ visibility # "public"
      BY <1>2, <1>5 DEF AddMember, CountOK
    <2>2. member[w].status # "active" => member'[w].status # "active"
      BY <1>1, <1>5 DEF AddMember, CommunityInv, TypeOK
    <2>3. member[w].status = "active" => member'[w] = member[w]
      BY <1>1, MemberParts DEF AddMember
    <2>4. ActiveMembers' = ActiveMembers
      BY <1>1, <1>3, <2>2, <2>3 DEF ActiveMembers, Active
    <2>5. CountsOK' /\ CountSettles'
      <3>1. CountOK("done", NoJob, member')
        BY DEF CountOK
      <3>2. QED
        BY <1>1, <1>3, <2>1, <2>4, <3>1, Uncounted DEF Finish
    <2>6. QED
      BY <1>1, <2>1, <2>4, <2>5 DEF Orderly, Counted, NoneWaits
  <1>6. QED
    BY <1>1, <1>4, <1>5 DEF Job

LEMMA RemoveCounted ==
    ASSUME CommunityInv, Orderly, NEW h \in Handlers, RemoveMember(h)
    PROVE  Counted'
  <1> DEFINE w == job[h].about
  <1>1. /\ pc[h] = "remove" /\ w \in Users /\ job[h] \in Job
        /\ visibility # "none" /\ UNCHANGED <<visibility, memberCount>>
    BY Knows DEF RemoveMember, JobOK
  <1>2. member[w].status = job[h].status
    BY <1>1 DEF Orderly, Counted, CountsOK, CountOK
  <1>3. /\ \A u \in Users : u # w => member'[u] = member[u]
        /\ member'[w].status = "none"
    BY <1>1 DEF RemoveMember, CommunityInv, TypeOK, NoMember
  <1>4. NoneWaits'
    BY <1>1, <1>3 DEF Orderly, Counted, NoneWaits
  <1>5. CASE job[h].status = "active"
    <2>1. Count(h, -1)
      BY <1>5 DEF RemoveMember
    <2>2. CountsOK' /\ CountSettles' /\ IsFiniteSet(ActiveMembers')
      BY <1>1, <1>2, <1>3, <1>5, <2>1, ToCount
    <2>3. QED
      BY <1>4, <2>2 DEF Counted
  <1>6. CASE job[h].status = "pending"
    <2>1. Finish(h)
      BY <1>6 DEF RemoveMember
    <2>2. ActiveMembers' = ActiveMembers
      BY <1>2, <1>3, <1>6 DEF ActiveMembers, Active
    <2>3. CountsOK' /\ CountSettles'
      <3>1. CountOK("done", NoJob, member')
        BY DEF CountOK
      <3>2. QED
        BY <1>1, <1>3, <2>1, <2>2, <3>1, Uncounted DEF Finish
    <2>4. QED
      BY <1>4, <2>2, <2>3 DEF Orderly, Counted
  <1>7. QED
    BY <1>1, <1>5, <1>6 DEF Job

LEMMA ApproveCounted ==
    ASSUME CommunityInv, Orderly, NEW h \in Handlers, ApproveMember(h)
    PROVE  Counted'
  <1> DEFINE w == job[h].about
  <1>1. /\ pc[h] = "approve" /\ w \in Users
        /\ visibility # "none" /\ UNCHANGED <<visibility, memberCount>>
    BY Knows DEF ApproveMember, JobOK
  <1>2. member[w].status = "pending"
    BY <1>1 DEF Orderly, Counted, CountsOK, CountOK
  <1>3. HasRow(w)
    BY <1>1, <1>2, MemberParts
  <1>4. /\ \A u \in Users : u # w => member'[u] = member[u]
        /\ member'[w].status = "active"
    <2>1. member' = [member EXCEPT ![w].status = "active"]
      BY <1>3 DEF ApproveMember
    <2>2. member[w] \in [role : {"owner", "moderator", "member"},
                         status : {"active", "pending"}]
      BY <1>1, <1>3, MemberParts
    <2>3. member \in [Users -> Member]
      BY DEF CommunityInv, TypeOK
    <2>4. QED
      BY <1>1, <2>1, <2>2, <2>3
  <1>5. CountsOK' /\ CountSettles' /\ IsFiniteSet(ActiveMembers')
    BY <1>1, <1>2, <1>4, ToCount DEF ApproveMember
  <1>6. NoneWaits'
    BY <1>1, <1>4 DEF Orderly, Counted, NoneWaits
  <1>7. QED
    BY <1>5, <1>6 DEF Counted

(* greatest(member_count + delta, 0) never has to cut anything off. *)
LEMMA IncCounted ==
    ASSUME CommunityInv, Orderly, NEW h \in Handlers, IncMemberCount(h)
    PROVE  Counted'
  <1> USE DEF CommunityInv, TypeOK
  <1>1. /\ pc[h] = "count" /\ job[h].delta \in {-1, 1} /\ Finish(h)
        /\ visibility # "none" /\ UNCHANGED <<visibility, member>>
    BY Knows DEF IncMemberCount, Job
  <1>2. memberCount \in Nat /\ Cardinality(ActiveMembers) \in Nat
    BY FS_CardinalityType DEF Orderly, Counted
  <1>3. ActiveMembers' = ActiveMembers /\ NoneWaits'
    BY <1>1 DEF ActiveMembers, Active, Orderly, Counted, NoneWaits
  <1>4. CountsOK'
    <2>1. CountOK("done", NoJob, member')
      BY DEF CountOK
    <2>2. QED
      BY <1>1, <2>1, OthersKnow DEF Finish, Orderly, Counted
  <1>5. memberCount + Cardinality(Counting(1)) - Cardinality(Counting(-1))
            = Cardinality(ActiveMembers)
    BY <1>1 DEF Orderly, Counted, CountSettles, ActiveMembers
  <1>6. CASE job[h].delta = 1
    <2>1. h \in Counting(1)
      BY <1>1, <1>6 DEF Counting
    <2>2. Counting(1)' = Counting(1) \ {h} /\ Counting(-1)' = Counting(-1)
      BY <1>1, <1>6 DEF Counting, Finish
    <2>3. Cardinality(Counting(1)') = Cardinality(Counting(1)) - 1
      BY <2>1, <2>2, CountingType, FS_RemoveElement
    <2>4. memberCount' = memberCount + 1
      BY <1>2, <1>6 DEF IncMemberCount
    <2> HIDE DEF CommunityInv, TypeOK
    <2>5. CountSettles'
      <3>1. memberCount' + Cardinality(Counting(1)') - Cardinality(Counting(-1)')
               = Cardinality(ActiveMembers')
        BY <1>2, <1>3, <1>5, <2>2, <2>3, <2>4, CountingType
      <3>2. QED
        BY <3>1 DEF CountSettles, ActiveMembers
    <2>6. QED
      BY <1>3, <1>4, <2>5 DEF Orderly, Counted
  <1>7. CASE job[h].delta = -1
    <2>1. h \in Counting(-1)
      BY <1>1, <1>7 DEF Counting
    <2>2. Counting(-1)' = Counting(-1) \ {h} /\ Counting(1)' = Counting(1)
      BY <1>1, <1>7 DEF Counting, Finish
    <2>3. Cardinality(Counting(-1)') = Cardinality(Counting(-1)) - 1
      BY <2>1, <2>2, CountingType, FS_RemoveElement
    <2>4. Cardinality(Counting(-1)) > 0
      BY <2>1, CountingType, FS_EmptySet
    <2>5. memberCount > 0
      BY <1>2, <1>5, <2>4, CountingType, CountBounded
    <2>6. memberCount' = memberCount - 1
      BY <1>2, <1>7, <2>5 DEF IncMemberCount
    <2> HIDE DEF CommunityInv, TypeOK
    <2>7. CountSettles'
      <3>1. memberCount' + Cardinality(Counting(1)') - Cardinality(Counting(-1)')
               = Cardinality(ActiveMembers')
        BY <1>2, <1>3, <1>5, <2>2, <2>3, <2>6, CountingType
      <3>2. QED
        BY <3>1 DEF CountSettles, ActiveMembers
    <2>8. QED
      BY <1>3, <1>4, <2>7 DEF Orderly, Counted
  <1>8. QED
    BY <1>1, <1>6, <1>7

(* A step of a call that changes no membership row. *)
LEMMA StillCounted ==
    ASSUME CommunityInv, Orderly, NEW h \in Handlers, NEW l, NEW x,
           pc' = [pc EXCEPT ![h] = l], job' = [job EXCEPT ![h] = x],
           pc[h] # "count", l # "count",
           UNCHANGED <<visibility, memberCount, member>>, CountOK(l, x, member)
    PROVE  Counted'
  <1>1. ActiveMembers' = ActiveMembers /\ NoneWaits'
    BY DEF ActiveMembers, Active, Orderly, Counted, NoneWaits
  <1>2. CountOK(l, x, member')
    OBVIOUS
  <1>3. CountsOK' /\ CountSettles'
    BY <1>1, <1>2, Uncounted
  <1>4. QED
    BY <1>1, <1>3 DEF Orderly, Counted

LEMMA EndCounted ==
    ASSUME CommunityInv, Orderly, NEW h \in Handlers, Finish(h),
           pc[h] # "count", UNCHANGED <<visibility, memberCount, member>>
    PROVE  Counted'
  <1>1. CountOK("done", NoJob, member)
    BY DEF CountOK
  <1>2. QED
    BY <1>1, StillCounted DEF Finish

LEMMA RoleCounted ==
    ASSUME CommunityInv, Orderly, NEW h \in Handlers, SetMemberRole(h)
    PROVE  Counted'
  <1> DEFINE w == job[h].about
  <1>1. /\ pc[h] = "role" /\ w \in Users /\ Finish(h)
        /\ UNCHANGED <<visibility, memberCount>>
    BY Knows DEF SetMemberRole, JobOK
  <1>2. \A u \in Users : /\ u # w => member'[u] = member[u]
                         /\ member'[u].status = member[u].status
    <2>1. CASE HasRow(w)
      <3>1. member[w] \in [role : {"owner", "moderator", "member"},
                           status : {"active", "pending"}]
        BY <1>1, <2>1, MemberParts
      <3>2. member' = [member EXCEPT ![w].role = job[h].role]
        BY <2>1 DEF SetMemberRole
      <3>3. QED
        BY <1>1, <3>1, <3>2 DEF CommunityInv, TypeOK
    <2>2. CASE ~HasRow(w)
      BY <2>2 DEF SetMemberRole
    <2>3. QED
      BY <2>1, <2>2
  <1>3. ActiveMembers' = ActiveMembers /\ NoneWaits'
    BY <1>1, <1>2 DEF ActiveMembers, Active, Orderly, Counted, NoneWaits
  <1>4. CountsOK' /\ CountSettles'
    <2>1. CountOK("done", NoJob, member')
      BY DEF CountOK
    <2>2. QED
      BY <1>1, <1>2, <1>3, <2>1, Uncounted DEF Finish
  <1>5. QED
    BY <1>3, <1>4 DEF Orderly, Counted

LEMMA TargetCounted ==
    ASSUME CommunityInv, Orderly, NEW h \in Handlers,
           ReadTarget(h) \/ CreateInvite(h) \/ SetInviteStatus(h)
    PROVE  Counted'
  <1>1. /\ pc[h] \in {"target", "invite", "respond"} /\ job[h] \in Job
        /\ JobOK(pc[h], job[h], member) /\ CountOK(pc[h], job[h], member)
        /\ UNCHANGED <<visibility, memberCount, member>>
    BY Knows DEF ReadTarget, CreateInvite, SetInviteStatus, members, Orderly,
       Counted, CountsOK
  <1>2. CASE Finish(h)
    BY <1>1, <1>2, EndCounted
  <1>3. CASE SetInviteStatus(h) /\ ~Finish(h)
    <2>1. pc[h] = "respond" /\ pc' = [pc EXCEPT ![h] = "add"] /\ job' = job
      BY <1>3 DEF SetInviteStatus, Goto
    <2>2. job' = [job EXCEPT ![h] = job[h]]
      BY <2>1 DEF CommunityInv, TypeOK
    <2>3. CountOK("add", job[h], member)
      BY <1>1, <2>1 DEF JobOK, CountOK
    <2>4. QED
      BY <1>1, <2>1, <2>2, <2>3, StillCounted
  <1>4. CASE ReadTarget(h) /\ ~Finish(h)
    <2> DEFINE does == job[h].does
               m == member[job[h].about]
               l == IF does = "kick" THEN "remove" ELSE does
               x == [NoJob EXCEPT
                        !.about = job[h].about, !.role = job[h].role,
                        !.status = IF does = "kick" THEN m.status ELSE "active"]
    <2>1. /\ pc[h] = "target" /\ pc' = [pc EXCEPT ![h] = l]
          /\ job' = [job EXCEPT ![h] = x]
          /\ does = "approve" => m.status = "pending"
      BY <1>4 DEF ReadTarget
    <2>2. does \in {"approve", "role", "kick", "invite"}
      BY <1>1, <2>1 DEF JobOK
    <2>3. x.about = job[h].about /\ does = "kick" => x.status = m.status
      BY DEF NoJob
    <2>4. CountOK(l, x, member)
      <3>1. x.about = job[h].about
        BY DEF NoJob
      <3>2. QED
        BY <2>1, <2>2, <2>3, <3>1 DEF CountOK
    <2>5. l # "count"
      BY <2>2
    <2> HIDE DEF l, x
    <2>6. QED
      BY <1>1, <2>1, <2>4, <2>5, StillCounted
  <1>5. QED
    BY <1>2, <1>3, <1>4 DEF CreateInvite

LEMMA CallCounted ==
    ASSUME CommunityInv, Orderly, NEW h \in Handlers,
           MemberCall(h) \/ PostingCall(h)
    PROVE  Counted'
  <1>1. ASSUME NEW l, NEW x, Start(h, l, x), UNCHANGED <<members, content>>,
               l # "count", CountOK(l, x, member)
        PROVE  Counted'
    <2>1. /\ pc[h] # "count" /\ pc' = [pc EXCEPT ![h] = l]
          /\ job' = [job EXCEPT ![h] = x]
          /\ UNCHANGED <<visibility, memberCount, member>>
      BY <1>1 DEF Start, members
    <2>2. QED
      BY <1>1, <2>1, StillCounted
  <1>2. ASSUME NEW u \in Users, Join(h, u) PROVE Counted'
    <2> DEFINE x == [NoJob EXCEPT !.user = u, !.about = u, !.does = "join",
                 !.status = IF visibility = "public" THEN "active" ELSE "pending"]
    <2>1. visibility = "public" => member[u].role = "none"
      BY <1>2, MemberParts DEF Join, Active, Orderly, Counted, NoneWaits, HasRow
    <2>2. CountOK("add", x, member)
      BY <2>1 DEF CountOK, NoJob
    <2>3. Start(h, "add", x) /\ UNCHANGED <<members, content>>
      BY <1>2 DEF Join
    <2> HIDE DEF x
    <2>4. QED
      BY <1>1, <2>2, <2>3
  <1>3. ASSUME NEW u \in Users, Leave(h, u) PROVE Counted'
    <2> DEFINE x == [NoJob EXCEPT !.user = u, !.about = u,
                                  !.status = member[u].status]
    <2>1. CountOK("remove", x, member)
      BY DEF CountOK, NoJob
    <2>2. Start(h, "remove", x) /\ UNCHANGED <<members, content>>
      BY <1>3 DEF Leave
    <2> HIDE DEF x
    <2>3. QED
      BY <1>1, <2>1, <2>2
  <1>4. ASSUME NEW u \in Users, NEW i \in Invites, NEW accept \in BOOLEAN,
               RespondInvite(h, u, i, accept)
        PROVE  Counted'
    <2> DEFINE x == [NoJob EXCEPT !.user = u, !.about = u, !.id = i,
                                  !.flag = accept]
    <2>1. CountOK("respond", x, member)
      BY DEF CountOK, NoJob
    <2>2. Start(h, "respond", x) /\ UNCHANGED <<members, content>>
      BY <1>4 DEF RespondInvite
    <2> HIDE DEF x
    <2>3. QED
      BY <1>1, <2>1, <2>2
  <1>5. ASSUME NEW l \in {"target", "post", "delete_auth", "react_auth"}, NEW x,
               Start(h, l, x), UNCHANGED <<members, content>>
        PROVE  Counted'
    <2>1. CountOK(l, x, member) /\ l # "count"
      BY <1>5 DEF CountOK
    <2>2. QED
      BY <1>1, <1>5, <2>1
  <1>6. ASSUME NEW u \in Users, NEW v \in Users,
               \/ \E does \in {"approve", "kick", "invite"} :
                     ModeratorCall(h, u, v, does)
               \/ \E role \in {"moderator", "member"} : ChangeRole(h, u, v, role)
        PROVE  Counted'
    BY <1>5, <1>6 DEF ModeratorCall, ChangeRole
  <1>7. ASSUME PostingCall(h) PROVE Counted'
    <2>1. PICK u \in Users :
              \/ \E announcement \in BOOLEAN : CreatePost(h, u, announcement)
              \/ \E p \in Posts, l \in {"delete_auth", "react_auth", "unreact_auth"} :
                    PostCall(h, u, p, l)
      BY <1>7 DEF PostingCall
    <2>2. CASE \E announcement \in BOOLEAN : CreatePost(h, u, announcement)
      BY <1>5, <2>2 DEF CreatePost
    <2>3. ASSUME NEW p \in Posts,
                 NEW l \in {"delete_auth", "react_auth", "unreact_auth"},
                 PostCall(h, u, p, l)
          PROVE  Counted'
      <3> DEFINE m == IF l = "unreact_auth" THEN "react_auth" ELSE l
                 x == [NoJob EXCEPT !.user = u, !.id = p,
                                    !.flag = (l = "unreact_auth")]
      <3>1. /\ m \in {"target", "post", "delete_auth", "react_auth"}
            /\ Start(h, m, x) /\ UNCHANGED <<members, content>>
        BY <2>3 DEF PostCall
      <3> HIDE DEF m, x
      <3>2. QED
        BY <1>5, <3>1
    <2>4. QED
      BY <2>1, <2>2, <2>3
  <1>8. QED
    BY <1>2, <1>3, <1>4, <1>6, <1>7 DEF MemberCall

LEMMA PostStepCounted ==
    ASSUME CommunityInv, Orderly, NEW h \in Handlers, PostStep(h)
    PROVE  Counted'
  <1>1. /\ pc[h] # "count" /\ UNCHANGED <<visibility, memberCount, member>>
    BY DEF PostStep, InsertPost, DeleteAuth, SoftDeletePost, ReactAuth,
       ReactRead, ReactCommit, Unreact, members
  <1>2. CASE Finish(h)
    BY <1>1, <1>2, EndCounted
  <1>3. ASSUME NEW l \in {"delete", "react", "unreact"}, Goto(h, l)
        PROVE  Counted'
    <2>1. pc' = [pc EXCEPT ![h] = l] /\ job' = [job EXCEPT ![h] = job[h]]
      BY <1>3 DEF Goto, CommunityInv, TypeOK
    <2>2. CountOK(l, job[h], member) /\ l # "count"
      BY <1>3 DEF CountOK
    <2>3. QED
      BY <1>1, <2>1, <2>2, StillCounted
  <1>4. CASE ReactRead(h)
    <2> DEFINE x == [job[h] EXCEPT !.flag = job[h].user \in reacted[job[h].id]]
    <2>1. pc' = [pc EXCEPT ![h] = "react_commit"] /\ job' = [job EXCEPT ![h] = x]
      BY <1>4 DEF ReactRead
    <2>2. CountOK("react_commit", x, member)
      BY DEF CountOK
    <2> HIDE DEF x
    <2>3. QED
      BY <1>1, <2>1, <2>2, StillCounted
  <1>5. QED
    BY <1>2, <1>3, <1>4 DEF PostStep, InsertPost, DeleteAuth, SoftDeletePost,
       ReactAuth, ReactCommit, Unreact

LEMMA CreateCounted ==
    ASSUME CommunityInv, Orderly, NEW u \in Users, Create(u)
    PROVE  Counted'
  <1>1. /\ \A h \in Handlers : pc[h] = "idle"
        /\ \A v \in Users : member[v] = NoMember
        /\ memberCount' = 1 /\ UNCHANGED <<pc, job>>
    BY DEF Create, CommunityInv, Unborn
  <1>2. \A v \in Users :
           member'[v] = IF v = u THEN [role |-> "owner", status |-> "active"]
                                 ELSE NoMember
    BY <1>1 DEF Create, CommunityInv, TypeOK
  <1>3. ActiveMembers' = {u}
    BY <1>2 DEF ActiveMembers, Active, NoMember
  <1>4. IsFiniteSet(ActiveMembers') /\ Cardinality(ActiveMembers') = 1
    BY <1>3, FS_Singleton
  <1>5. Counting(1)' = {} /\ Counting(-1)' = {}
    BY <1>1 DEF Counting
  <1>6. CountSettles'
    <2>1. memberCount' + Cardinality(Counting(1)') - Cardinality(Counting(-1)')
             = Cardinality(ActiveMembers')
      BY <1>1, <1>4, <1>5, FS_EmptySet
    <2>2. QED
      BY <2>1 DEF CountSettles, ActiveMembers
  <1>7. CountsOK' /\ NoneWaits'
    BY <1>1, <1>2 DEF CountsOK, CountOK, NoneWaits, NoMember
  <1>8. QED
    BY <1>4, <1>6, <1>7 DEF Counted

LEMMA NextCounted ==
    ASSUME CommunityInv, Orderly, [Next]_vars
    PROVE  Counted'
  <1>1. ASSUME UNCHANGED <<pc, job, visibility, memberCount, member>>
        PROVE  Counted'
    BY <1>1 DEF Orderly, Counted, CountsOK, CountOK, NoneWaits, CountSettles,
       ActiveMembers, Active, Counting
  <1>2. ASSUME NEW h \in Handlers, MemberStep(h) PROVE Counted'
    BY <1>2, AddCounted, RemoveCounted, IncCounted, TargetCounted,
       ApproveCounted, RoleCounted DEF MemberStep
  <1>3. QED
    BY <1>1, <1>2, CreateCounted, CallCounted, PostStepCounted
       DEF Next, vars, members, Moderate

(* The invariant of the counter: while calls take turns, what a call read  *)
(* of its member's row still holds when it writes the row or counts it.    *)
THEOREM CountInvariant == MCSpec => [](CommunityInv /\ CountInv)
  <1>1. MCInit => CommunityInv /\ CountInv
    <2> SUFFICES ASSUME MCInit PROVE CommunityInv /\ CountInv
      OBVIOUS
    <2>1. CommunityInv
      BY InitCommunityInv DEF MCInit
    <2>2. ActiveMembers = {}
      BY DEF MCInit, Init, ActiveMembers, Active, NoMember
    <2>3. Counted
      BY <2>2, FS_EmptySet DEF MCInit, Init, Counted, CountsOK, CountOK,
         NoneWaits, CountSettles
    <2>4. TakeTurns /\ NewcomersAccept
      BY DEF MCInit, Init, TakeTurns, NewcomersAccept, Working, NoJob
    <2>5. QED
      BY <2>1, <2>3, <2>4 DEF CountInv, Orderly
  <1>2. CommunityInv /\ CountInv /\ [MCNext]_<<vars, orderly>>
           => (CommunityInv /\ CountInv)'
    <2> SUFFICES ASSUME CommunityInv, CountInv, [MCNext]_<<vars, orderly>>
                 PROVE  (CommunityInv /\ CountInv)'
      OBVIOUS
    <2>1. [Next]_vars
      BY DEF MCNext
    <2>2. CommunityInv'
      BY <2>1, NextKeepsCommunityInv
    <2>3. ASSUME orderly' PROVE Orderly'
      <3>1. orderly
        BY <2>3 DEF MCNext
      <3>2. Counted'
        BY <2>1, <3>1, NextCounted DEF CountInv
      <3>3. CASE MCNext
        BY <2>3, <3>2, <3>3 DEF MCNext, Orderly
      <3>4. CASE UNCHANGED <<vars, orderly>>
        BY <3>1, <3>2, <3>4 DEF CountInv, Orderly, TakeTurns, NewcomersAccept,
           Working, HasRow, vars, members
      <3>5. QED
        BY <3>3, <3>4
    <2>4. QED
      BY <2>2, <2>3 DEF CountInv
  <1>3. QED
    BY <1>1, <1>2, PTL DEF MCSpec

(* As long as the calls about a member take turns and no member with a row *)
(* accepts an invitation, memberCount is the number of active members up   *)
(* to the calls that are about to change it; it is never cut off at zero.  *)
THEOREM MemberCountCorrect == MCSpec => []MemberCountIsExact
  <1>1. CommunityInv /\ CountInv => MemberCountIsExact
    BY DEF CountInv, Orderly, Counted, MemberCountIsExact
  <1>2. QED
    BY <1>1, CountInvariant, PTL
=============================================================================
