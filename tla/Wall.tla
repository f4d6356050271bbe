-------------------------------- MODULE Wall --------------------------------
(***************************************************************************)
(* A post of the campus wall with its replies, reactions, poll, bookmarks  *)
(* and trending row, and the pseudonymous handles of its authors:          *)
(* wallService.ts over wallRepository.ts.                                  *)
(*                                                                         *)
(* Every REST call is a handler h \in Handlers, numbered in the order in   *)
(* which they start; one action is one database statement, or the part of  *)
(* a transaction that no other can see apart.  votePoll is followed from   *)
(* row lock to row lock.  Posts do not interact, so one is enough.  The    *)
(* maintained counters are the subject: what they count is stored apart.   *)
(***************************************************************************)
EXTENDS Naturals, Integers, FiniteSets

CONSTANTS
    Users,
    NCalls,      \* bound: REST calls
    MaxBusy,     \* bound: calls under way at the same time
    MaxFails,    \* bound: calls cut short by an error
    Replies,     \* ids of replies; each is used once
    Options,     \* of the poll
    Names,       \* handles that generateAnonHandle may draw
    Tries,       \* draws before a name is used without being stored
    Post, NoUser, None

ASSUME WallAssumption ==
    /\ IsFiniteSet(Users)
    /\ NCalls \in Nat /\ MaxBusy \in Nat /\ MaxFails \in Nat
    /\ Tries \in Nat \ {0}
    /\ NoUser \notin Users
    /\ Post \notin Replies
    /\ None \notin Replies \cup Options \cup Names \cup {Post}

VARIABLES
    pc, job,
    content,       \* wall_posts and wall_replies: status and author
    replyCount,    \* wall_posts.reply_count
    reacted,       \* reactions: who has reacted to what
    reactionCount, \* reaction_count of the post and of the replies
    poll,          \* wall_poll_options: vote_count of each option
    vote,          \* wall_poll_votes
    bookmarks,
    trending,      \* the post has a row in trending_posts
    handle,        \* users.anon_handle
    shown,         \* stored handles that answers have shown for a user
    fallback,      \* names they have shown that were not stored
    fails

counters == <<replyCount, reactionCount, poll>>
names == <<handle, shown, fallback>>
rest == <<bookmarks, trending, fails>>
vars == <<pc, job, content, counters, reacted, vote, names, rest>>

Handlers == 1..NCalls
Targets == Replies \cup {Post}

NoJob == [user |-> NoUser, id |-> None, prev |-> None, draws |-> 0,
          next |-> "done"]

Nothing == [status |-> "none", author |-> NoUser]

(* requireVisiblePost and the checks of a reply. *)
Visible(t) == content[t].status = "visible"

(* The options are stored after the post. *)
PollOpen == DOMAIN poll = Options

Init ==
    /\ pc = [h \in Handlers |-> "idle"]
    /\ job = [h \in Handlers |-> NoJob]
    /\ content = [t \in Targets |-> Nothing]
    /\ replyCount = 0
    /\ reacted = [t \in Targets |-> {}]
    /\ reactionCount = [t \in Targets |-> 0]
    /\ poll = [o \in {} |-> 0]
    /\ vote = [u \in Users |-> None]
    /\ bookmarks = {}
    /\ trending = FALSE
    /\ handle = [u \in Users |-> None]
    /\ shown = [u \in Users |-> {}]
    /\ fallback = [u \in Users |-> {}]
    /\ fails = 0

At(l) == Cardinality({h \in Handlers : pc[h] = l})

Start(h, l, j) ==
    /\ pc[h] = "idle"
    /\ \A g \in Handlers : g < h => pc[g] # "idle"
    /\ Cardinality({g \in Handlers : pc[g] \notin {"idle", "done"}}) < MaxBusy
    /\ pc' = [pc EXCEPT ![h] = l]
    /\ job' = [job EXCEPT ![h] = j]

Goto(h, l) ==
    /\ pc' = [pc EXCEPT ![h] = l]
    /\ job' = [job EXCEPT ![h] = IF l = "done" THEN NoJob ELSE @]

-----------------------------------------------------------------------------
(* resolveHandles: on the way of every call that answers with an author.   *)

(* getAnonHandles finds the handle, or one is assigned. *)
Resolve(h) ==
    LET u == job[h].user IN
    /\ pc[h] = "resolve"
    /\ \/ /\ handle[u] # None
          /\ shown' = [shown EXCEPT ![u] = @ \cup {handle[u]}]
          /\ Goto(h, job[h].next)
       \/ /\ handle[u] = None
          /\ Goto(h, "assign")
          /\ UNCHANGED shown
    /\ UNCHANGED <<content, counters, reacted, vote, handle, fallback, rest>>

(* Variant: the update lacks WHERE anon_handle IS NULL. *)
AssignHandle_Overwrites(h) ==
    LET u == job[h].user
        free(n) == \A v \in Users \ {u} : handle[v] # n
    IN
    /\ pc[h] = "assign"
    /\ \E n \in Names :
          /\ free(n)
          /\ handle' = [handle EXCEPT ![u] = n]
          /\ shown' = [shown EXCEPT ![u] = @ \cup {n}]
          /\ Goto(h, job[h].next)
    /\ UNCHANGED <<content, counters, reacted, vote, fallback, rest>>

(* An attempt that stored nothing: another name is drawn, and the last one *)
(* is used all the same.                                                   *)
Redraw(h, n) ==
    \/ /\ job[h].draws + 1 < Tries
       /\ job' = [job EXCEPT ![h].draws = @ + 1]
       /\ UNCHANGED <<pc, fallback>>
    \/ /\ job[h].draws + 1 = Tries
       /\ fallback' = [fallback EXCEPT ![job[h].user] = @ \cup {n}]
       /\ Goto(h, job[h].next)

(* assignAnonHandleIfEmpty: only where anon_handle is null, and not a name *)
(* that somebody else has.                                                 *)
AssignHandle(h) ==
    LET u == job[h].user
        free(n) == \A v \in Users : handle[v] # n
    IN
    /\ pc[h] = "assign"
    /\ \/ /\ handle[u] # None
          /\ shown' = [shown EXCEPT ![u] = @ \cup {handle[u]}]
          /\ Goto(h, job[h].next)
          /\ UNCHANGED <<handle, fallback>>
       \/ \E n \in Names :
             /\ handle[u] = None
             /\ free(n)
             /\ handle' = [handle EXCEPT ![u] = n]
             /\ shown' = [shown EXCEPT ![u] = @ \cup {n}]
             /\ Goto(h, job[h].next)
             /\ UNCHANGED fallback
       \/ \E n \in Names :
             /\ handle[u] = None
             /\ ~free(n)
             /\ Redraw(h, n)
             /\ UNCHANGED <<handle, shown>>
    /\ UNCHANGED <<content, counters, reacted, vote, rest>>

(* Its catch takes every error for a name that is taken. *)
AssignFails(h) ==
    /\ pc[h] = "assign"
    /\ fails < MaxFails
    /\ fails' = fails + 1
    /\ \E n \in Names : Redraw(h, n)
    /\ UNCHANGED <<content, counters, reacted, vote, handle, shown, bookmarks,
                   trending>>

(* createPost: the post, then the author's handle, then the poll options.  *)
CreatePost(h, u) ==
    /\ content[Post].status = "none"
    /\ Start(h, "resolve", [NoJob EXCEPT !.user = u, !.next = "options"])
    /\ content' = [content EXCEPT ![Post] = [status |-> "visible", author |-> u]]
    /\ UNCHANGED <<counters, reacted, vote, names, rest>>

CreatePollOptions(h) ==
    /\ pc[h] = "options"
    /\ poll' = [o \in Options |-> 0]
    /\ Goto(h, "done")
    /\ UNCHANGED <<content, replyCount, reactionCount, reacted, vote, names, rest>>

(* feed, search, getPost, listBookmarks: nothing but the handle of an      *)
(* author may be written; one call stands for one of the authors it shows. *)
Read(h) ==
    /\ Visible(Post)
    /\ \E t \in Targets :
          /\ Visible(t)
          /\ Start(h, "resolve", [NoJob EXCEPT !.user = content[t].author])
    /\ UNCHANGED <<content, counters, reacted, vote, names, rest>>

(* deletePost finds the caller's own visible post. *)
DeletePost(h) ==
    /\ Visible(Post)
    /\ Start(h, "delete", [NoJob EXCEPT !.id = Post])
    /\ UNCHANGED <<content, counters, reacted, vote, names, rest>>

(* createReply, on a visible post.  An id is left for the reply. *)
CreateReply(h, u) ==
    /\ Visible(Post)
    /\ At("reply") < Cardinality({r \in Replies : content[r].status = "none"})
    /\ Start(h, "reply", [NoJob EXCEPT !.user = u])
    /\ UNCHANGED <<content, counters, reacted, vote, names, rest>>

InsertReply(h) ==
    /\ pc[h] = "reply"
    /\ \E r \in Replies :
          /\ content[r].status = "none"
          /\ content' = [content EXCEPT ![r] =
                            [status |-> "visible", author |-> job[h].user]]
    /\ Goto(h, "reply_inc")
    /\ UNCHANGED <<counters, reacted, vote, names, rest>>

IncReplyCount(h) ==
    /\ pc[h] = "reply_inc"
    /\ replyCount' = replyCount + 1
    /\ Goto(h, "resolve")
    /\ UNCHANGED <<content, reactionCount, poll, reacted, vote, names, rest>>

(* deleteReply finds the caller's own reply, visible or hidden. *)
DeleteReply(h, r) ==
    /\ content[r].status \in {"visible", "hidden"}
    /\ Start(h, "delete", [NoJob EXCEPT !.id = r])
    /\ UNCHANGED <<content, counters, reacted, vote, names, rest>>

(* softDeletePost and softDeleteReply, by id. *)
SoftDelete(h) ==
    /\ pc[h] = "delete"
    /\ content' = [content EXCEPT ![job[h].id].status = "deleted"]
    /\ Goto(h, IF job[h].id = Post THEN "done" ELSE "reply_dec")
    /\ UNCHANGED <<counters, reacted, vote, names, rest>>

DecReplyCount(h) ==
    /\ pc[h] = "reply_dec"
    /\ replyCount' = replyCount - 1
    /\ Goto(h, "done")
    /\ UNCHANGED <<content, reactionCount, poll, reacted, vote, names, rest>>

(* applyAction of a moderator hides or removes; nothing shows it again. *)
Moderate(t) ==
    /\ Visible(t)
    /\ content' = [content EXCEPT ![t].status = "hidden"]
    /\ UNCHANGED <<pc, job, counters, reacted, vote, names, rest>>

(* An error between the statements of a call: what is stored stays. *)
Fail(h) ==
    /\ pc[h] \in {"options", "reply_inc", "reply_dec"}
    /\ fails < MaxFails
    /\ fails' = fails + 1
    /\ Goto(h, "done")
    /\ UNCHANGED <<content, counters, reacted, vote, names, bookmarks, trending>>

-----------------------------------------------------------------------------
(* Reactions and bookmarks *)

(* react and unreact (l) on a visible target; that of a reply looks at the *)
(* post afterwards.                                                        *)
React(h, u, t, l) ==
    /\ Visible(t)
    /\ Start(h, IF t = Post THEN l ELSE "target_post",
             [NoJob EXCEPT !.user = u, !.id = t,
                           !.next = IF t = Post THEN "done" ELSE l])
    /\ UNCHANGED <<content, counters, reacted, vote, names, rest>>

(* Variant: only the reply itself is looked at. *)
TargetPost_Skipped(h) ==
    /\ pc[h] = "target_post"
    /\ Goto(h, job[h].next)
    /\ UNCHANGED <<content, counters, reacted, vote, names, rest>>

TargetPost(h) ==
    /\ pc[h] = "target_post"
    /\ Goto(h, IF Visible(Post) THEN job[h].next ELSE "done")
    /\ UNCHANGED <<content, counters, reacted, vote, names, rest>>

(* The author of a post is told the handle of somebody else who reacts. *)
Answer(h) ==
    Goto(h, IF job[h].id = Post /\ job[h].user # content[Post].author
            THEN "resolve" ELSE "done")

(* The transaction of react looks for a reaction: its type is changed, or  *)
(* one is going to be inserted.                                            *)
ReactRead(h) ==
    /\ pc[h] = "react"
    /\ \/ job[h].user \in reacted[job[h].id] /\ Answer(h)
       \/ job[h].user \notin reacted[job[h].id] /\ Goto(h, "react_insert")
    /\ UNCHANGED <<content, counters, reacted, vote, names, rest>>

(* Variant: the insertion ignores a conflict, and is counted all the same. *)
ReactInsert_CountsTwice(h) ==
    /\ pc[h] = "react_insert"
    /\ reacted' = [reacted EXCEPT ![job[h].id] = @ \cup {job[h].user}]
    /\ reactionCount' = [reactionCount EXCEPT ![job[h].id] = @ + 1]
    /\ Answer(h)
    /\ UNCHANGED <<content, replyCount, poll, vote, names, rest>>

(* The row and the counter; a second insertion violates the unique index,  *)
(* which ends the call.                                                    *)
ReactInsert(h) ==
    LET u == job[h].user
        t == job[h].id
    IN
    /\ pc[h] = "react_insert"
    /\ \/ u \in reacted[t] /\ Goto(h, "done") /\ UNCHANGED <<reacted, reactionCount>>
       \/ /\ u \notin reacted[t]
          /\ reacted' = [reacted EXCEPT ![t] = @ \cup {u}]
          /\ reactionCount' = [reactionCount EXCEPT ![t] = @ + 1]
          /\ Answer(h)
    /\ UNCHANGED <<content, replyCount, poll, vote, names, rest>>

(* unreact: the counter follows the row that was deleted, if any. *)
Unreact(h) ==
    LET u == job[h].user
        t == job[h].id
    IN
    /\ pc[h] = "unreact"
    /\ \/ u \notin reacted[t] /\ UNCHANGED <<reacted, reactionCount>>
       \/ /\ u \in reacted[t]
          /\ reacted' = [reacted EXCEPT ![t] = @ \ {u}]
          /\ reactionCount' = [reactionCount EXCEPT ![t] =
                                  IF @ > 0 THEN @ - 1 ELSE 0]
    /\ Goto(h, "done")
    /\ UNCHANGED <<content, replyCount, poll, vote, names, rest>>

Bookmark(h, u) ==
    /\ Visible(Post)
    /\ Start(h, "bookmark", [NoJob EXCEPT !.user = u])
    /\ UNCHANGED <<content, counters, reacted, vote, names, rest>>

AddBookmark(h) ==
    /\ pc[h] = "bookmark"
    /\ bookmarks' = bookmarks \cup {job[h].user}
    /\ Goto(h, "done")
    /\ UNCHANGED <<content, counters, reacted, vote, names, trending, fails>>

(* unbookmark is one statement, whatever the post is. *)
RemoveBookmark(u) ==
    /\ u \in bookmarks
    /\ bookmarks' = bookmarks \ {u}
    /\ UNCHANGED <<pc, job, content, counters, reacted, vote, names, trending, fails>>

-----------------------------------------------------------------------------
(* votePoll.  A transaction that has written a row holds it until it ends: *)
(* the previous option after VoteDec, the vote of the user after VoteRow   *)
(* or VoteInsert.  The last statement and the commit are one step, in      *)
(* which all that the transaction has written becomes visible.             *)

HoldsOption(g, o) == pc[g] \in {"vote_row", "vote_inc"} /\ job[g].prev = o

HoldsVote(g, u) == pc[g] = "vote_inc" /\ job[g].user = u

(* What the next statement of h has to wait for. *)
WaitsFor(h, g) ==
    /\ g # h
    /\ \/ pc[h] = "vote_dec" /\ HoldsOption(g, job[h].prev)
       \/ pc[h] \in {"vote_row", "vote_insert"} /\ HoldsVote(g, job[h].user)
       \/ pc[h] = "vote_inc" /\ HoldsOption(g, job[h].id)

Unhindered(h) == \A g \in Handlers : ~WaitsFor(h, g)

(* The post is a visible poll that has the option. *)
VotePoll(h, u, o) ==
    /\ Visible(Post)
    /\ PollOpen
    /\ Start(h, "vote", [NoJob EXCEPT !.user = u, !.id = o])
    /\ UNCHANGED <<content, counters, reacted, vote, names, rest>>

(* The vote of the user: the same is no change. *)
VoteRead(h) ==
    LET prev == vote[job[h].user] IN
    /\ pc[h] = "vote"
    /\ \/ prev = job[h].id /\ Goto(h, "done")
       \/ /\ prev # job[h].id
          /\ pc' = [pc EXCEPT ![h] = IF prev = None THEN "vote_insert" ELSE "vote_dec"]
          /\ job' = [job EXCEPT ![h].prev = prev]
    /\ UNCHANGED <<content, counters, reacted, vote, names, rest>>

(* The previous option and the vote are updated, one after the other. *)
VoteDec(h) ==
    /\ pc[h] = "vote_dec"
    /\ Unhindered(h)
    /\ Goto(h, "vote_row")
    /\ UNCHANGED <<content, counters, reacted, vote, names, rest>>

VoteRow(h) ==
    /\ pc[h] = "vote_row"
    /\ Unhindered(h)
    /\ Goto(h, "vote_inc")
    /\ UNCHANGED <<content, counters, reacted, vote, names, rest>>

(* Variant: a unique violation is tried again without reading again. *)
VoteInsert_Retries(h) ==
    /\ pc[h] = "vote_insert"
    /\ Unhindered(h)
    /\ vote[job[h].user] = None
    /\ Goto(h, "vote_inc")
    /\ UNCHANGED <<content, counters, reacted, vote, names, rest>>

(* A vote that another transaction has inserted meanwhile ends this one.   *)
VoteInsert(h) ==
    /\ pc[h] = "vote_insert"
    /\ Unhindered(h)
    /\ Goto(h, IF vote[job[h].user] = None THEN "vote_inc" ELSE "done")
    /\ UNCHANGED <<content, counters, reacted, vote, names, rest>>

(* Variant: the previous option keeps its count. *)
VoteCommit_KeepsPrevious(h) ==
    /\ pc[h] = "vote_inc"
    /\ Unhindered(h)
    /\ poll' = [poll EXCEPT ![job[h].id] = @ + 1]
    /\ vote' = [vote EXCEPT ![job[h].user] = job[h].id]
    /\ Goto(h, "done")
    /\ UNCHANGED <<content, replyCount, reactionCount, reacted, names, rest>>

(* The new option is counted and the transaction commits; the previous one *)
(* has lost greatest(vote_count - 1, 0).                                   *)
VoteCommit(h) ==
    LET j == job[h] IN
    /\ pc[h] = "vote_inc"
    /\ Unhindered(h)
    /\ poll' = [o \in Options |->
                  CASE o = j.id -> poll[o] + 1
                    [] o = j.prev /\ poll[o] > 0 -> poll[o] - 1
                    [] OTHER -> poll[o]]
    /\ vote' = [vote EXCEPT ![j.user] = j.id]
    /\ Goto(h, "done")
    /\ UNCHANGED <<content, replyCount, reactionCount, reacted, names, rest>>

(* PostgreSQL ends a transaction that waits for itself through others. *)
BreakDeadlock(h) ==
    /\ \E S \in SUBSET Handlers :
          /\ h \in S
          /\ \A g \in S : \E f \in S : WaitsFor(g, f)
    /\ Goto(h, "done")
    /\ UNCHANGED <<content, counters, reacted, vote, names, rest>>

-----------------------------------------------------------------------------
(* recomputeTrending: a visible post gets a row, one that is not visible   *)
(* loses it.                                                               *)
TrendingUpsert ==
    /\ Visible(Post)
    /\ ~trending
    /\ trending' = TRUE
    /\ UNCHANGED <<pc, job, content, counters, reacted, vote, names, bookmarks, fails>>

TrendingClean ==
    /\ ~Visible(Post)
    /\ trending
    /\ trending' = FALSE
    /\ UNCHANGED <<pc, job, content, counters, reacted, vote, names, bookmarks, fails>>

-----------------------------------------------------------------------------
Step(h) ==
    \/ Resolve(h) \/ AssignHandle(h) \/ CreatePollOptions(h) \/ InsertReply(h)
    \/ IncReplyCount(h) \/ SoftDelete(h) \/ DecReplyCount(h) \/ TargetPost(h)
    \/ ReactRead(h) \/ ReactInsert(h) \/ Unreact(h) \/ AddBookmark(h)
    \/ VoteRead(h) \/ VoteDec(h) \/ VoteRow(h) \/ VoteInsert(h) \/ VoteCommit(h)
    \/ BreakDeadlock(h)

Call(h) ==
    \/ Read(h) \/ DeletePost(h)
    \/ \E u \in Users : CreatePost(h, u) \/ CreateReply(h, u) \/ Bookmark(h, u)
    \/ \E r \in Replies : DeleteReply(h, r)
    \/ \E u \in Users, t \in Targets, l \in {"react", "unreact"} : React(h, u, t, l)
    \/ \E u \in Users, o \in Options : VotePoll(h, u, o)

Next ==
    \/ \E h \in Handlers : Step(h) \/ Call(h) \/ Fail(h) \/ AssignFails(h)
    \/ \E t \in Targets : Moderate(t)
    \/ \E u \in Users : RemoveBookmark(u)
    \/ TrendingUpsert \/ TrendingClean

Spec == Init /\ [][Next]_vars

(* PostgreSQL answers, and grants a lock that stays free. *)
FairSpec == Spec /\ \A h \in Handlers : WF_vars(Step(h))

-----------------------------------------------------------------------------
(* Properties *)

(* The counters are what they count, up to the calls that have changed a   *)
(* row and not yet its counter, as long as no call is cut short, no two    *)
(* delete one reply and no two vote for one user at the same time.         *)
Undisturbed ==
    /\ fails = 0
    /\ \A g, h \in Handlers :
          g # h => /\ ~ (/\ pc[g] \in {"delete", "reply_dec"}
                         /\ pc[h] \in {"delete", "reply_dec"}
                         /\ job[g].id = job[h].id)
                   /\ ~ (/\ job[g].user = job[h].user
                         /\ pc[g] \in {"vote_dec", "vote_row", "vote_inc"}
                         /\ pc[h] \in {"vote_dec", "vote_row", "vote_inc"})

Stored == {r \in Replies : content[r].status \in {"visible", "hidden"}}

CountersFollow ==
    /\ replyCount + At("reply_inc") - At("reply_dec") = Cardinality(Stored)
    /\ \A o \in DOMAIN poll : poll[o] = Cardinality({u \in Users : vote[u] = o})

(* The reaction counter of every target is exact, whatever overlaps. *)
ReactionsExact ==
    \A t \in Targets : reactionCount[t] = Cardinality(reacted[t])

(* A post that is gone is closed: once no call that has found it visible   *)
(* is under way, it gets no reply, reaction, vote or bookmark.             *)
Admitted ==
    \E h \in Handlers :
        \/ pc[h] \in {"reply", "bookmark", "vote", "vote_dec", "vote_row",
                      "vote_insert", "vote_inc"}
        \/ pc[h] \in {"react", "react_insert", "unreact"}

GoneIsClosed ==
    [][content[Post].status \in {"hidden", "deleted"} /\ ~Admitted =>
        /\ ~Admitted'
        /\ \A r \in Replies : content[r].status = "none" => content'[r] = content[r]
        /\ UNCHANGED <<reacted, vote>>
        /\ bookmarks' \subseteq bookmarks]_vars

(* A handle is one user's and is that user's for ever: whatever stored      *)
(* handle has been shown for a user is still the one of that user and of    *)
(* nobody else.  A name is shown without being stored only when it was      *)
(* taken, as long as no statement has failed.                               *)
OneHandleForEver ==
    \A u \in Users :
        /\ shown[u] \subseteq {handle[u]}
        /\ handle[u] # None => \A v \in Users \ {u} : handle[v] # handle[u]
        /\ fails = 0 => \A n \in fallback[u] : \E v \in Users : handle[v] = n

(* Every call is answered: votes that change in opposite directions wait   *)
(* for each other's options until one of them is ended.                    *)
CallsAnswered == \A h \in Handlers : pc[h] # "idle" ~> pc[h] = "done"
=============================================================================
