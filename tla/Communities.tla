----------------------------- MODULE Communities -----------------------------
(***************************************************************************)
(* A community: members and their roles, invitations, the member counter   *)
(* and the posts with their reactions.  communityService.ts over           *)
(* communityRepository.ts.                                                 *)
(*                                                                         *)
(* Every REST call is a handler h \in Handlers, numbered in the order in    *)
(* which they start.  One action is one database statement; create         *)
(* and unreact are transactions whose statements nobody can see apart,     *)
(* react is one that another can overtake between its read and its write.  *)
(* Communities do not interact, so one is enough.                          *)
(***************************************************************************)
EXTENDS Naturals, Integers, FiniteSets

CONSTANTS
    Users,
    NCalls,      \* bound: REST calls
    MaxBusy,     \* bound: calls under way at the same time
    Invites,     \* ids of invitations; each is used once
    Posts,       \* ids of posts; each is used once
    Visibilities,
    MaxCount,    \* bound of the counter
    NoUser, NoId

ASSUME CommunitiesAssumption ==
    /\ NCalls \in Nat
    /\ MaxBusy \in Nat
    /\ Visibilities \subseteq {"public", "request", "invite"}
    /\ MaxCount \in Nat \ {0}
    /\ NoUser \notin Users
    /\ NoId \notin Invites \cup Posts

VARIABLES
    pc, job,
    visibility,   \* communities.visibility, "none" before it is created
    memberCount,  \* communities.member_count
    member,       \* community_members
    invites,      \* community_invites
    post,         \* community_posts
    reacted,      \* reactions: who has reacted to a post
    reactionCount \* community_posts.reaction_count

members == <<visibility, memberCount, member, invites>>
content == <<post, reacted, reactionCount>>
vars == <<pc, job, members, content>>

Handlers == 1..NCalls

NoMember == [role |-> "none", status |-> "none"]

Member == [role : {"owner", "moderator", "member"},
           status : {"active", "pending"}] \cup {NoMember}

Invite == [status : {"none", "pending", "accepted", "declined"},
           invitee : Users \cup {NoUser}]

Post == [status : {"none", "visible", "hidden", "deleted"},
         author : Users \cup {NoUser}]

Job == [user : Users \cup {NoUser},      \* who calls
        about : Users \cup {NoUser},     \* the member it is about
        does : {"none", "join", "approve", "role", "kick", "invite"},
        role : {"moderator", "member"},  \* to be given by changeRole
        status : {"active", "pending"},  \* to be written, or read of a member
        delta : {-1, 1},
        id : Invites \cup Posts \cup {NoId},
        flag : BOOLEAN]   \* accept an invitation; unreact; a reaction exists

NoJob == [user |-> NoUser, about |-> NoUser, does |-> "none",
          role |-> "member", status |-> "active", delta |-> 1, id |-> NoId,
          flag |-> FALSE]

PC == {"idle", "add", "remove", "count", "target", "approve", "role",
       "invite", "respond", "post", "delete_auth", "delete", "react_auth",
       "react", "react_commit", "unreact", "done"}

HasRow(u) == member[u].role # "none"

(* requireActiveMember, requireModerator and requireOwner. *)
Active(u) == member[u].status = "active"

IsModerator(u) == Active(u) /\ member[u].role \in {"owner", "moderator"}

IsOwner(u) == Active(u) /\ member[u].role = "owner"

Init ==
    /\ pc = [h \in Handlers |-> "idle"]
    /\ job = [h \in Handlers |-> NoJob]
    /\ visibility = "none"
    /\ memberCount = 0
    /\ member = [u \in Users |-> NoMember]
    /\ invites = [i \in Invites |-> [status |-> "none", invitee |-> NoUser]]
    /\ post = [p \in Posts |-> [status |-> "none", author |-> NoUser]]
    /\ reacted = [p \in Posts |-> {}]
    /\ reactionCount = [p \in Posts |-> 0]

Start(h, l, j) ==
    /\ pc[h] = "idle"
    /\ \A g \in Handlers : g < h => pc[g] # "idle"
    /\ Cardinality({g \in Handlers : pc[g] \notin {"idle", "done"}}) < MaxBusy
    /\ pc' = [pc EXCEPT ![h] = l]
    /\ job' = [job EXCEPT ![h] = j]

Goto(h, l) ==
    /\ pc' = [pc EXCEPT ![h] = l]
    /\ UNCHANGED job

Finish(h) ==
    /\ pc' = [pc EXCEPT ![h] = "done"]
    /\ job' = [job EXCEPT ![h] = NoJob]

(* The call goes on to the counter. *)
Count(h, delta) ==
    /\ pc' = [pc EXCEPT ![h] = "count"]
    /\ job' = [job EXCEPT ![h].delta = delta]

-----------------------------------------------------------------------------
(* create, join, leave *)

(* The slug is free; create inserts the community and its owner's row in   *)
(* one transaction.  A second create runs into the unique slug.            *)
Create(u) ==
    /\ visibility = "none"
    /\ visibility' \in Visibilities
    /\ memberCount' = 1
    /\ member' = [member EXCEPT ![u] = [role |-> "owner", status |-> "active"]]
    /\ UNCHANGED <<pc, job, invites, content>>

(* Variant: invite-only communities are joined like those by request. *)
Join_AnyVisibility(h, u) ==
    /\ visibility # "none"
    /\ ~Active(u)
    /\ Start(h, "add", [NoJob EXCEPT !.user = u, !.about = u, !.does = "join",
           !.status = IF visibility = "public" THEN "active" ELSE "pending"])
    /\ UNCHANGED <<members, content>>

(* join up to its lookup of the membership. *)
Join(h, u) ==
    /\ visibility \in {"public", "request"}
    /\ ~Active(u)
    /\ Start(h, "add", [NoJob EXCEPT !.user = u, !.about = u, !.does = "join",
           !.status = IF visibility = "public" THEN "active" ELSE "pending"])
    /\ UNCHANGED <<members, content>>

(* addMember: onConflictDoNothing.  What follows does not depend on it. *)
AddMember(h) ==
    /\ pc[h] = "add"
    /\ \/ HasRow(job[h].about) /\ UNCHANGED member
       \/ /\ ~HasRow(job[h].about)
          /\ member' = [member EXCEPT ![job[h].about] =
                           [role |-> "member", status |-> job[h].status]]
    /\ \/ job[h].status = "active" /\ Count(h, 1)
       \/ job[h].status = "pending" /\ Finish(h)
    /\ UNCHANGED <<visibility, memberCount, invites, content>>

(* leave up to its lookup: an owner may not. *)
Leave(h, u) ==
    /\ HasRow(u)
    /\ member[u].role # "owner"
    /\ Start(h, "remove", [NoJob EXCEPT !.user = u, !.about = u,
                                        !.status = member[u].status])
    /\ UNCHANGED <<members, content>>

(* removeMember of the repository, by key; the counter follows the status  *)
(* that was read before.                                                   *)
RemoveMember(h) ==
    /\ pc[h] = "remove"
    /\ member' = [member EXCEPT ![job[h].about] = NoMember]
    /\ \/ job[h].status = "active" /\ Count(h, -1)
       \/ job[h].status = "pending" /\ Finish(h)
    /\ UNCHANGED <<visibility, memberCount, invites, content>>

(* Variant: only additions are counted, a member who leaves is not. *)
IncMemberCount_OnlyUp(h) ==
    /\ pc[h] = "count"
    /\ memberCount' = IF job[h].delta = 1 THEN memberCount + 1 ELSE memberCount
    /\ memberCount' <= MaxCount
    /\ Finish(h)
    /\ UNCHANGED <<visibility, member, invites, content>>

(* incMemberCount: greatest(member_count + delta, 0). *)
IncMemberCount(h) ==
    LET n == memberCount + job[h].delta IN
    /\ pc[h] = "count"
    /\ n <= MaxCount
    /\ memberCount' = IF n < 0 THEN 0 ELSE n
    /\ Finish(h)
    /\ UNCHANGED <<visibility, member, invites, content>>

-----------------------------------------------------------------------------
(* Member management and invitations *)

(* requireModerator passes. *)
ModeratorCall(h, u, v, does) ==
    /\ IsModerator(u)
    /\ does \in {"approve", "kick", "invite"}
    /\ Start(h, "target", [NoJob EXCEPT !.user = u, !.about = v, !.does = does])
    /\ UNCHANGED <<members, content>>

(* requireOwner passes. *)
ChangeRole(h, u, v, role) ==
    /\ IsOwner(u)
    /\ Start(h, "target", [NoJob EXCEPT !.user = u, !.about = v,
                                        !.does = "role", !.role = role])
    /\ UNCHANGED <<members, content>>

(* Variant: neither changeRole nor removeMember spares the owner. *)
ReadTarget_AnyRole(h) ==
    LET m == member[job[h].about]
        does == job[h].does
        may == CASE does = "approve" -> m.status = "pending"
                 [] does = "role" -> m.status = "active"
                 [] does = "kick" -> m.role # "none"
                 [] does = "invite" -> m.status # "active"
    IN
    /\ pc[h] = "target"
    /\ \/ /\ may
          /\ pc' = [pc EXCEPT ![h] = IF does = "kick" THEN "remove" ELSE does]
          /\ job' = [job EXCEPT ![h] = [NoJob EXCEPT
                        !.about = job[h].about, !.role = job[h].role,
                        !.status = IF does = "kick" THEN m.status ELSE "active"]]
       \/ ~may /\ Finish(h)
    /\ UNCHANGED <<members, content>>

(* getMembership of the member that the call is about: the one other       *)
(* condition of each call.                                                 *)
ReadTarget(h) ==
    LET m == member[job[h].about]
        does == job[h].does
        may == CASE does = "approve" -> m.status = "pending"
                 [] does = "role" -> m.status = "active" /\ m.role # "owner"
                 [] does = "kick" -> m.role \notin {"none", "owner"}
                 [] does = "invite" -> m.status # "active"
    IN
    /\ pc[h] = "target"
    /\ \/ /\ may
          /\ pc' = [pc EXCEPT ![h] = IF does = "kick" THEN "remove" ELSE does]
          /\ job' = [job EXCEPT ![h] = [NoJob EXCEPT
                        !.about = job[h].about, !.role = job[h].role,
                        !.status = IF does = "kick" THEN m.status ELSE "active"]]
       \/ ~may /\ Finish(h)
    /\ UNCHANGED <<members, content>>

(* Variant: the row is taken for granted. *)
ApproveMember_NoRow(h) ==
    /\ pc[h] = "approve"
    /\ member' = [member EXCEPT ![job[h].about].status = "active"]
    /\ Count(h, 1)
    /\ UNCHANGED <<visibility, memberCount, invites, content>>

(* setMemberStatus: an update by key, which may find no row any more. *)
ApproveMember(h) ==
    /\ pc[h] = "approve"
    /\ \/ ~HasRow(job[h].about) /\ UNCHANGED member
       \/ /\ HasRow(job[h].about)
          /\ member' = [member EXCEPT ![job[h].about].status = "active"]
    /\ Count(h, 1)
    /\ UNCHANGED <<visibility, memberCount, invites, content>>

(* setMemberRole, likewise. *)
SetMemberRole(h) ==
    /\ pc[h] = "role"
    /\ \/ ~HasRow(job[h].about) /\ UNCHANGED member
       \/ /\ HasRow(job[h].about)
          /\ member' = [member EXCEPT ![job[h].about].role = job[h].role]
    /\ Finish(h)
    /\ UNCHANGED <<visibility, memberCount, invites, content>>

PendingInvites(u) ==
    {i \in Invites : invites[i].status = "pending" /\ invites[i].invitee = u}

(* createInvite: a second pending invitation violates the unique index. *)
CreateInvite(h) ==
    /\ pc[h] = "invite"
    /\ \/ /\ PendingInvites(job[h].about) = {}
          /\ \E i \in Invites :
                /\ invites[i].status = "none"
                /\ invites' = [invites EXCEPT ![i] =
                      [status |-> "pending", invitee |-> job[h].about]]
       \/ PendingInvites(job[h].about) # {} /\ UNCHANGED invites
    /\ Finish(h)
    /\ UNCHANGED <<visibility, memberCount, member, content>>

(* respondInvite: the invitation is pending and addressed to the caller. *)
RespondInvite(h, u, i, accept) ==
    /\ i \in PendingInvites(u)
    /\ Start(h, "respond", [NoJob EXCEPT !.user = u, !.about = u, !.id = i,
                                         !.flag = accept])
    /\ UNCHANGED <<members, content>>

(* setInviteStatus, by id; who accepts is added as an active member. *)
SetInviteStatus(h) ==
    /\ pc[h] = "respond"
    /\ invites' = [invites EXCEPT ![job[h].id].status =
                      IF job[h].flag THEN "accepted" ELSE "declined"]
    /\ \/ job[h].flag /\ Goto(h, "add")
       \/ ~job[h].flag /\ Finish(h)
    /\ UNCHANGED <<visibility, memberCount, member, content>>

-----------------------------------------------------------------------------
(* Posts and reactions *)

(* createPost: announcements are for moderators. *)
CreatePost(h, u, announcement) ==
    /\ Active(u)
    /\ announcement => IsModerator(u)
    /\ Start(h, "post", [NoJob EXCEPT !.user = u])
    /\ UNCHANGED <<members, content>>

InsertPost(h) ==
    /\ pc[h] = "post"
    /\ \E p \in Posts :
          /\ post[p].status = "none"
          /\ post' = [post EXCEPT ![p] =
                         [status |-> "visible", author |-> job[h].user]]
    /\ Finish(h)
    /\ UNCHANGED <<members, reacted, reactionCount>>

(* deletePost, react and unreact find the post. *)
PostCall(h, u, p, l) ==
    /\ \/ l = "delete_auth" /\ post[p].status \in {"visible", "hidden"}
       \/ l \in {"react_auth", "unreact_auth"} /\ post[p].status = "visible"
    /\ Start(h, IF l = "unreact_auth" THEN "react_auth" ELSE l,
             [NoJob EXCEPT !.user = u, !.id = p, !.flag = (l = "unreact_auth")])
    /\ UNCHANGED <<members, content>>

(* The author and moderators delete a post. *)
DeleteAuth(h) ==
    LET may == \/ post[job[h].id].author = job[h].user
               \/ IsModerator(job[h].user)
    IN
    /\ pc[h] = "delete_auth"
    /\ \/ may /\ Goto(h, "delete")
       \/ ~may /\ Finish(h)
    /\ UNCHANGED <<members, content>>

SoftDeletePost(h) ==
    /\ pc[h] = "delete"
    /\ post' = [post EXCEPT ![job[h].id].status = "deleted"]
    /\ Finish(h)
    /\ UNCHANGED <<members, reacted, reactionCount>>

(* Variant: whoever has a row may react, also a pending one. *)
ReactAuth_AnyRow(h) ==
    /\ pc[h] = "react_auth"
    /\ \/ HasRow(job[h].user) /\ ~job[h].flag /\ Goto(h, "react")
       \/ HasRow(job[h].user) /\ job[h].flag /\ Goto(h, "unreact")
       \/ ~HasRow(job[h].user) /\ Finish(h)
    /\ UNCHANGED <<members, content>>

(* requireActiveMember of react and unreact. *)
ReactAuth(h) ==
    /\ pc[h] = "react_auth"
    /\ \/ Active(job[h].user) /\ ~job[h].flag /\ Goto(h, "react")
       \/ Active(job[h].user) /\ job[h].flag /\ Goto(h, "unreact")
       \/ ~Active(job[h].user) /\ Finish(h)
    /\ UNCHANGED <<members, content>>

(* The transaction of react looks for a reaction of the caller. *)
ReactRead(h) ==
    /\ pc[h] = "react"
    /\ pc' = [pc EXCEPT ![h] = "react_commit"]
    /\ job' = [job EXCEPT ![h].flag = job[h].user \in reacted[job[h].id]]
    /\ UNCHANGED <<members, content>>

(* Variant: a concurrent insertion is ignored instead of failing. *)
ReactCommit_Ignores(h) ==
    LET p == job[h].id IN
    /\ pc[h] = "react_commit"
    /\ \/ job[h].flag /\ UNCHANGED <<reacted, reactionCount>>
       \/ /\ ~job[h].flag
          /\ reacted' = [reacted EXCEPT ![p] = @ \cup {job[h].user}]
          /\ reactionCount' = [reactionCount EXCEPT ![p] = @ + 1]
    /\ Finish(h)
    /\ UNCHANGED <<members, post>>

(* The type of a reaction that was found is changed, one that was not is   *)
(* inserted and counted; the unique index undoes a second insertion.       *)
ReactCommit(h) ==
    LET p == job[h].id IN
    /\ pc[h] = "react_commit"
    /\ \/ /\ job[h].flag \/ job[h].user \in reacted[p]
          /\ UNCHANGED <<reacted, reactionCount>>
       \/ /\ ~job[h].flag
          /\ job[h].user \notin reacted[p]
          /\ reacted' = [reacted EXCEPT ![p] = @ \cup {job[h].user}]
          /\ reactionCount' = [reactionCount EXCEPT ![p] = @ + 1]
    /\ Finish(h)
    /\ UNCHANGED <<members, post>>

(* unreact: the counter follows the row that was deleted, if any. *)
Unreact(h) ==
    LET p == job[h].id IN
    /\ pc[h] = "unreact"
    /\ \/ job[h].user \notin reacted[p] /\ UNCHANGED <<reacted, reactionCount>>
       \/ /\ job[h].user \in reacted[p]
          /\ reacted' = [reacted EXCEPT ![p] = @ \ {job[h].user}]
          /\ reactionCount' = [reactionCount EXCEPT ![p] =
                                  IF @ > 0 THEN @ - 1 ELSE 0]
    /\ Finish(h)
    /\ UNCHANGED <<members, post>>

(* applyAction of the platform's moderators hides or removes the post. *)
Moderate(p) ==
    /\ post[p].status = "visible"
    /\ post' = [post EXCEPT ![p].status = "hidden"]
    /\ UNCHANGED <<pc, job, members, reacted, reactionCount>>

-----------------------------------------------------------------------------
MemberStep(h) ==
    \/ AddMember(h) \/ RemoveMember(h) \/ IncMemberCount(h) \/ ReadTarget(h)
    \/ ApproveMember(h) \/ SetMemberRole(h) \/ CreateInvite(h)
    \/ SetInviteStatus(h)

PostStep(h) ==
    \/ InsertPost(h) \/ DeleteAuth(h) \/ SoftDeletePost(h) \/ ReactAuth(h)
    \/ ReactRead(h) \/ ReactCommit(h) \/ Unreact(h)

MemberCall(h) ==
    \E u \in Users :
        \/ Join(h, u) \/ Leave(h, u)
        \/ \E v \in Users, does \in {"approve", "kick", "invite"} :
              ModeratorCall(h, u, v, does)
        \/ \E v \in Users, role \in {"moderator", "member"} :
              ChangeRole(h, u, v, role)
        \/ \E i \in Invites, accept \in BOOLEAN : RespondInvite(h, u, i, accept)

PostingCall(h) ==
    \E u \in Users :
        \/ Posts # {} /\ \E announcement \in BOOLEAN : CreatePost(h, u, announcement)
        \/ \E p \in Posts, l \in {"delete_auth", "react_auth", "unreact_auth"} :
              PostCall(h, u, p, l)

Next ==
    \/ \E u \in Users : Create(u)
    \/ \E h \in Handlers :
          MemberCall(h) \/ PostingCall(h) \/ MemberStep(h) \/ PostStep(h)
    \/ \E p \in Posts : Moderate(p)

Spec == Init /\ [][Next]_vars

-----------------------------------------------------------------------------
(* Properties *)

(* Every variable has its type. *)
TypeOK ==
    /\ pc \in [Handlers -> PC]
    /\ job \in [Handlers -> Job]
    /\ visibility \in Visibilities \cup {"none"}
    /\ memberCount \in 0..MaxCount
    /\ member \in [Users -> Member]
    /\ invites \in [Invites -> Invite]
    /\ post \in [Posts -> Post]
    /\ reacted \in [Posts -> SUBSET Users]
    /\ reactionCount \in [Posts -> Nat]

(* A community that exists has one owner, who is an active member: no      *)
(* overlap of leaving, removing, joining again and changing roles deletes  *)
(* the owner's row, demotes it or makes a second one.                      *)
OneOwner ==
    visibility # "none" =>
        \E u \in Users : /\ IsOwner(u)
                         /\ \A v \in Users : member[v].role = "owner" => v = u

(* The counter is the number of active members, up to the calls that have  *)
(* changed a row and not yet the counter, as long as the calls about one   *)
(* member take turns and nobody who has a row accepts an invitation.       *)
Working(h, u) == job[h].about = u

TakeTurns ==
    \A u \in Users, g, h \in Handlers : Working(g, u) /\ Working(h, u) => g = h

NewcomersAccept ==
    \A h \in Handlers :
        pc[h] = "add" /\ job[h].id # NoId => ~HasRow(job[h].about)

Counting(delta) == {h \in Handlers : pc[h] = "count" /\ job[h].delta = delta}

CountSettles ==
    visibility # "none" =>
        memberCount + Cardinality(Counting(1)) - Cardinality(Counting(-1))
            = Cardinality({u \in Users : Active(u)})

(* An invite-only community is closed: while nobody is inviting u and u    *)
(* has no invitation to answer, only somebody who moderates the community  *)
(* at that moment can start what may bring u in.                           *)
Incoming(h, u) ==
    /\ job[h].about = u
    /\ \/ pc[h] \in {"add", "invite", "respond"}
       \/ pc[h] = "target" /\ job[h].does = "invite"

Outside(u) ==
    /\ ~HasRow(u)
    /\ PendingInvites(u) = {}
    /\ \A h \in Handlers : ~Incoming(h, u)

InviteOnlyIsClosed ==
    [][visibility = "invite" =>
        \A u \in Users :
            Outside(u) /\ ~Outside(u)' =>
                \E h \in Handlers, m \in Users :
                    /\ IsModerator(m)
                    /\ pc[h] = "idle"
                    /\ job'[h].user = m]_vars

(* Who is no active member publishes nothing and does not react: once no   *)
(* call of u that was admitted before is under way, no call of u is        *)
(* admitted, no post of u appears, and no reaction of u appears or goes    *)
(* while u stays outside.  Posts of u may go: deletePost asks the author   *)
(* for no membership, and moderators delete posts.                         *)
Admitted(u) ==
    \E h \in Handlers :
        /\ job[h].user = u
        /\ pc[h] \in {"post", "react", "react_commit", "unreact"}

SilentOutside ==
    [][\A u \in Users :
          /\ ~Active(u) /\ ~Active(u)' /\ ~Admitted(u)
          => /\ ~Admitted(u)'
             /\ \A p \in Posts :
                   /\ post'[p].author = u => post[p].author = u
                   /\ u \in reacted'[p] <=> u \in reacted[p]]_vars

(* The counter of a post is the number of users that reacted to it. *)
ReactionsExact ==
    \A p \in Posts : reactionCount[p] = Cardinality(reacted[p])
=============================================================================
