----------------------------- MODULE WallProofs -----------------------------
(***************************************************************************)
(* Proofs about Wall, for any users, calls, replies, options and names.    *)
(* WallInv holds what the calls know of the rows they work on and that a   *)
(* poll is opened once; HandleInv is about the names; TallyInv, for the    *)
(* counters, about the history variable of MCWall.                         *)
(***************************************************************************)
EXTENDS MCWall, FiniteSetTheorems, TLAPS

USE WallAssumption DEF WallAssumption

PC == {"idle", "done", "resolve", "assign", "options", "delete", "reply",
       "reply_inc", "reply_dec", "target_post", "react", "react_insert",
       "unreact", "bookmark", "vote", "vote_dec", "vote_row", "vote_insert",
       "vote_inc"}

VotePC == {"vote", "vote_dec", "vote_row", "vote_insert", "vote_inc"}

(* Users, and whatever MCWall takes for one when there is none. *)
Anyone == Users \cup {NoUser, Author}

Job == [user : Anyone, id : Targets \cup Options \cup {None},
        prev : Options \cup {None}, draws : Nat,
        next : {"done", "options", "react", "unreact"}]

Row == [status : {"none", "visible", "hidden", "deleted"}, author : Anyone]

HandlerTypes == pc \in [Handlers -> PC] /\ job \in [Handlers -> Job]

TableTypes ==
    /\ content \in [Targets -> Row]
    /\ replyCount \in Int
    /\ reacted \in [Targets -> SUBSET Users]
    /\ reactionCount \in [Targets -> Nat]
    /\ DOMAIN poll \in {{}, Options} /\ poll \in [DOMAIN poll -> Nat]
    /\ vote \in [Users -> Options \cup {None}]
    /\ fails \in Nat

(* What a call at l with locals x relies on, given the posts and replies c. *)
JobOK(l, x, c) ==
    /\ l \in VotePC \cup {"reply", "target_post", "react", "react_insert",
                          "unreact"} => x.user \in Users
    /\ l \in {"delete", "react", "react_insert", "unreact"} => x.id \in Targets
    /\ l = "delete" => c[x.id].status # "none"
    /\ l = "target_post" => /\ x.id \in Replies
                            /\ x.next \in {"react", "unreact"}
    /\ l \in {"react", "react_insert"} /\ x.id = Post => x.next = "done"
    /\ l \in {"reply", "reply_inc"} => x.next = "done"
    /\ l \in {"resolve", "assign"} => x.next \in {"done", "options"}
    /\ l \in VotePC => x.id \in Options
    /\ l \in VotePC \ {"vote"} => x.prev # x.id
    /\ l = "vote_insert" => x.prev = None

JobsOK == \A h \in Handlers : JobOK(pc[h], job[h], content)

(* The call with locals x at l is the one that will open the poll. *)
Opening(l, x) ==
    \/ l = "options"
    \/ l \in {"resolve", "assign"} /\ x.next = "options"

(* The poll is opened once, and nobody votes before. *)
PollOnce ==
    /\ content[Post].status = "none" =>
          DOMAIN poll = {} /\ \A h \in Handlers : ~Opening(pc[h], job[h])
    /\ \A h \in Handlers : Opening(pc[h], job[h]) =>
          /\ DOMAIN poll = {}
          /\ \A g \in Handlers : Opening(pc[g], job[g]) => g = h
    /\ DOMAIN poll # Options =>
          /\ \A u \in Users : vote[u] = None
          /\ \A h \in Handlers : pc[h] \notin VotePC

WallInv == HandlerTypes /\ TableTypes /\ JobsOK /\ PollOnce

(* No two users have one handle, the handles shown are still those of the  *)
(* users, and what was shown without being stored is somebody's handle.    *)
HandleInv ==
    /\ handle \in [Users -> Names \cup {None}]
    /\ shown \in [Users -> SUBSET Names]
    /\ fallback \in [Users -> SUBSET Names]
    /\ fails \in Nat
    /\ \A u, v \in Users : handle[u] # None /\ handle[u] = handle[v] => u = v
    /\ \A u \in Users : \A n \in shown[u] : n = handle[u]
    /\ fails = 0 =>
          \A u \in Users : \A n \in fallback[u] : \E v \in Users : handle[v] = n

(* The counters are exact, and a call that is about to change a row still  *)
(* finds it as it has read it. *)
VotesFor(o) == {u \in Users : vote[u] = o}

Tallied ==
    /\ IsFiniteSet(Stored)
    /\ CountersFollow
    /\ \A h \in Handlers :
          /\ pc[h] = "delete" /\ job[h].id \in Replies => job[h].id \in Stored
          /\ pc[h] \in {"vote_dec", "vote_row", "vote_inc"} =>
                vote[job[h].user] = job[h].prev

TallyInv == orderly => Undisturbed /\ Tallied

-----------------------------------------------------------------------------
LEMMA NoJobType == NoJob \in Job
  BY DEF NoJob, Job, Anyone

LEMMA Knows ==
    ASSUME WallInv, NEW h \in Handlers
    PROVE  /\ pc[h] \in PC /\ job[h] \in Job
           /\ JobOK(pc[h], job[h], content)
           /\ pc[h] \in VotePC => DOMAIN poll = Options
  BY DEF WallInv, HandlerTypes, JobsOK, PollOnce

(* Posts and replies that exist do so for ever. *)
Lasting ==
    /\ content' \in [Targets -> Row]
    /\ \A t \in Targets : content[t].status # "none" => content'[t].status # "none"

LEMMA SameContent == ASSUME WallInv, UNCHANGED content PROVE Lasting
  BY DEF WallInv, TableTypes, Lasting

(* A call moves to l with locals x, and neither opens the poll nor votes.  *)
LEMMA MoveJobs ==
    ASSUME WallInv, NEW h \in Handlers, NEW l \in PC, NEW x \in Job,
           pc' = [pc EXCEPT ![h] = l], job' = [job EXCEPT ![h] = x],
           Lasting, UNCHANGED <<poll, vote>>, JobOK(l, x, content'),
           Opening(l, x) => Opening(pc[h], job[h]),
           l \in VotePC => DOMAIN poll = Options
    PROVE  HandlerTypes' /\ JobsOK' /\ PollOnce'
  <1> USE DEF WallInv, HandlerTypes
  <1>1. HandlerTypes'
    OBVIOUS
  <1>2. \A q \in Handlers : /\ pc'[q] = IF q = h THEN l ELSE pc[q]
                            /\ job'[q] = IF q = h THEN x ELSE job[q]
    OBVIOUS
  <1>3. ASSUME NEW q \in Handlers PROVE JobOK(pc'[q], job'[q], content')
    <2>1. CASE q = h
      BY <1>2, <2>1
    <2>2. CASE q # h
      <3>1. JobOK(pc[q], job[q], content)
        BY DEF JobsOK
      <3>2. JobOK(pc[q], job[q], content')
        BY <3>1 DEF JobOK, Lasting
      <3>3. QED
        BY <1>2, <2>2, <3>2
    <2>3. QED
      BY <2>1, <2>2
  <1>4. JobsOK'
    BY <1>3 DEF JobsOK
  <1>5. \A q \in Handlers : Opening(pc'[q], job'[q]) => Opening(pc[q], job[q])
    BY <1>2
  <1>6. PollOnce'
    <2>1. Post \in Targets
      BY DEF Targets
    <2>2. content'[Post].status = "none" => content[Post].status = "none"
      BY <2>1 DEF Lasting
    <2>3. \A q \in Handlers : pc'[q] \in VotePC =>
              pc[q] \in VotePC \/ DOMAIN poll = Options
      BY <1>2
    <2>4. QED
      BY <1>5, <2>2, <2>3 DEF PollOnce
  <1>7. QED
    BY <1>1, <1>4, <1>6

(* The same for Goto, which forgets the locals of a call that ends. *)
LEMMA GotoJobs ==
    ASSUME WallInv, NEW h \in Handlers, NEW l \in PC, Goto(h, l),
           Lasting, UNCHANGED <<poll, vote>>,
           l # "done" => /\ JobOK(l, job[h], content')
                         /\ Opening(l, job[h]) => Opening(pc[h], job[h])
                         /\ l \in VotePC => DOMAIN poll = Options
    PROVE  HandlerTypes' /\ JobsOK' /\ PollOnce'
  <1> DEFINE x == IF l = "done" THEN NoJob ELSE job[h]
  <1>1. x \in Job
    BY Knows, NoJobType
  <1>2. pc' = [pc EXCEPT ![h] = l] /\ job' = [job EXCEPT ![h] = x]
    BY DEF Goto
  <1>3. l = "done" => /\ JobOK(l, x, content') /\ ~Opening(l, x)
                      /\ l \notin VotePC
    BY DEF JobOK, Opening, VotePC
  <1>4. JobOK(l, x, content') /\ (Opening(l, x) => Opening(pc[h], job[h]))
        /\ (l \in VotePC => DOMAIN poll = Options)
    BY <1>3
  <1> HIDE DEF x
  <1>5. QED
    BY <1>1, <1>2, <1>4, MoveJobs

(* A call that starts. *)
LEMMA StartJobs ==
    ASSUME WallInv, NEW h \in Handlers, NEW l \in PC, NEW x \in Job,
           Start(h, l, x), UNCHANGED <<content, counters, reacted, vote, rest>>,
           JobOK(l, x, content), ~Opening(l, x),
           l \in VotePC => DOMAIN poll = Options
    PROVE  WallInv'
  <1>1. HandlerTypes' /\ JobsOK' /\ PollOnce'
    BY SameContent, MoveJobs DEF Start, counters
  <1>2. QED
    BY <1>1 DEF WallInv, TableTypes, counters, rest

(* A call that goes on and changes nothing that WallInv is about. *)
LEMMA GoOn ==
    ASSUME WallInv, NEW h \in Handlers, NEW l \in PC, Goto(h, l),
           UNCHANGED <<content, counters, reacted, vote, fails>>,
           l # "done" => /\ JobOK(l, job[h], content)
                         /\ Opening(l, job[h]) => Opening(pc[h], job[h])
                         /\ l \in VotePC => DOMAIN poll = Options
    PROVE  WallInv'
  <1>1. HandlerTypes' /\ JobsOK' /\ PollOnce'
    BY SameContent, GotoJobs DEF counters
  <1>2. QED
    BY <1>1 DEF WallInv, TableTypes, counters

-----------------------------------------------------------------------------
(* WallInv, action by action. *)
LEMMA HandleSteps ==
    ASSUME WallInv, NEW h \in Handlers,
           Resolve(h) \/ AssignHandle(h) \/ AssignFails(h)
    PROVE  WallInv'
  <1>1. /\ pc[h] \in {"resolve", "assign"} /\ job[h] \in Job
        /\ JobOK(pc[h], job[h], content)
        /\ UNCHANGED <<content, counters, reacted, vote>>
    BY Knows DEF Resolve, AssignHandle, AssignFails
  <1>2. job[h].next \in {"done", "options"}
    BY <1>1 DEF JobOK
  <1>7. fails' \in Nat
    BY DEF Resolve, AssignHandle, AssignFails, rest, WallInv, TableTypes
  <1>3. ASSUME NEW l \in {"done", "options", "assign"}, Goto(h, l),
               l # "assign" => l = job[h].next
        PROVE  WallInv'
    <2>1. /\ l \in PC
          /\ JobOK(l, job[h], content)
          /\ Opening(l, job[h]) => Opening(pc[h], job[h])
          /\ l \notin VotePC
      BY <1>1, <1>2, <1>3 DEF PC, JobOK, Opening, VotePC
    <2>2. HandlerTypes' /\ JobsOK' /\ PollOnce'
      BY <1>1, <1>3, <2>1, SameContent, GotoJobs DEF counters
    <2>3. QED
      BY <1>1, <1>7, <2>2 DEF WallInv, TableTypes, counters
  <1>4. CASE pc[h] = "assign" /\ pc' = pc /\ job' = [job EXCEPT ![h].draws = @ + 1]
    <2> DEFINE x == [job[h] EXCEPT !.draws = @ + 1]
    <2>1. x \in Job /\ job' = [job EXCEPT ![h] = x] /\ pc' = [pc EXCEPT ![h] = "assign"]
      BY <1>1, <1>4 DEF Job, WallInv, HandlerTypes
    <2>2. /\ "assign" \in PC /\ JobOK("assign", x, content')
          /\ Opening("assign", x) => Opening(pc[h], job[h])
          /\ "assign" \notin VotePC
      BY <1>1, <1>2, <1>4 DEF PC, JobOK, Opening, VotePC, Job
    <2> HIDE DEF x
    <2>3. HandlerTypes' /\ JobsOK' /\ PollOnce'
      BY <1>1, <2>1, <2>2, MoveJobs, SameContent DEF counters
    <2>4. QED
      BY <1>1, <1>7, <2>3 DEF WallInv, TableTypes, counters
  <1>5. \/ Goto(h, job[h].next) \/ Goto(h, "assign")
        \/ pc[h] = "assign" /\ pc' = pc /\ job' = [job EXCEPT ![h].draws = @ + 1]
    BY DEF Resolve, AssignHandle, AssignFails, Redraw
  <1>6. QED
    BY <1>2, <1>3, <1>4, <1>5

LEMMA CreatePostStep ==
    ASSUME WallInv, NEW h \in Handlers, NEW u \in Users, CreatePost(h, u)
    PROVE  WallInv'
  <1> DEFINE x == [NoJob EXCEPT !.user = u, !.next = "options"]
  <1>1. /\ pc' = [pc EXCEPT ![h] = "resolve"] /\ job' = [job EXCEPT ![h] = x]
        /\ content[Post].status = "none"
        /\ content' = [content EXCEPT ![Post] = [status |-> "visible", author |-> u]]
        /\ UNCHANGED <<counters, reacted, vote, rest>>
    BY DEF CreatePost, Start
  <1>2. x \in Job /\ "resolve" \in PC /\ x.next = "options"
    BY DEF NoJob, Job, PC, Anyone
  <1> HIDE DEF x
  <1>3. HandlerTypes' /\ TableTypes'
    BY <1>1, <1>2 DEF WallInv, HandlerTypes, TableTypes, Row, Anyone, Targets,
       counters, rest
  <1>4. ASSUME NEW q \in Handlers PROVE JobOK(pc'[q], job'[q], content')
    <2>1. CASE q = h
      BY <1>1, <1>2, <2>1 DEF WallInv, HandlerTypes, JobOK, VotePC
    <2>2. CASE q # h
      <3>1. JobOK(pc[q], job[q], content) /\ pc'[q] = pc[q] /\ job'[q] = job[q]
        BY <1>1, <2>2, Knows DEF WallInv, HandlerTypes
      <3>2. \A t \in Targets : content[t].status # "none" =>
                                  content'[t].status # "none"
        BY <1>1 DEF WallInv, TableTypes
      <3>3. QED
        BY <3>1, <3>2 DEF JobOK
    <2>3. QED
      BY <2>1, <2>2
  <1>5. JobsOK'
    BY <1>4 DEF JobsOK
  <1>6. PollOnce'
    <2>1. /\ DOMAIN poll = {} /\ UNCHANGED <<poll, vote>>
          /\ \A q \in Handlers : ~Opening(pc[q], job[q])
      BY <1>1 DEF WallInv, PollOnce, counters
    <2>2. content'[Post].status = "visible"
      BY <1>1 DEF WallInv, TableTypes, Targets
    <2>3. \A q \in Handlers : /\ q # h => pc'[q] = pc[q] /\ job'[q] = job[q]
                              /\ q = h => pc'[q] = "resolve"
      BY <1>1 DEF WallInv, HandlerTypes
    <2>4. QED
      BY <2>1, <2>2, <2>3 DEF WallInv, PollOnce, VotePC
  <1>7. QED
    BY <1>3, <1>5, <1>6 DEF WallInv

LEMMA PollOptionsStep ==
    ASSUME WallInv, NEW h \in Handlers, CreatePollOptions(h)
    PROVE  WallInv'
  <1>1. /\ pc[h] = "options" /\ poll' = [o \in Options |-> 0]
        /\ pc' = [pc EXCEPT ![h] = "done"] /\ job' = [job EXCEPT ![h] = NoJob]
        /\ UNCHANGED <<content, replyCount, reactionCount, reacted, vote, fails>>
    BY DEF CreatePollOptions, Goto, rest
  <1>2. Opening(pc[h], job[h])
    BY <1>1 DEF Opening
  <1>3. \A q \in Handlers : /\ q # h => pc'[q] = pc[q] /\ job'[q] = job[q]
                            /\ q = h => pc'[q] = "done"
    BY <1>1 DEF WallInv, HandlerTypes
  <1>4. HandlerTypes'
    BY <1>1, NoJobType DEF WallInv, HandlerTypes, PC
  <1>5. TableTypes'
    BY <1>1 DEF WallInv, TableTypes
  <1>6. JobsOK'
    <2>1. \A q \in Handlers : JobOK(pc'[q], job'[q], content)
      BY <1>3, Knows DEF JobOK, VotePC
    <2>2. QED
      BY <1>1, <2>1 DEF JobsOK
  <1>7. PollOnce'
    <2>1. \A q \in Handlers : ~Opening(pc'[q], job'[q])
      BY <1>2, <1>3 DEF WallInv, PollOnce, Opening
    <2>2. DOMAIN poll' = Options
      BY <1>1
    <2>3. content[Post].status # "none"
      BY <1>2 DEF WallInv, PollOnce
    <2>4. QED
      BY <1>1, <2>1, <2>2, <2>3 DEF PollOnce
  <1>8. QED
    BY <1>4, <1>5, <1>6, <1>7 DEF WallInv

LEMMA CallStep ==
    ASSUME WallInv, NEW h \in Handlers, Call(h)
    PROVE  WallInv'
  <1>1. ASSUME Read(h) PROVE WallInv'
    <2>1. PICK t \in Targets :
             Start(h, "resolve", [NoJob EXCEPT !.user = content[t].author])
      BY <1>1 DEF Read
    <2> DEFINE x == [NoJob EXCEPT !.user = content[t].author]
    <2>2. content[t].author \in Anyone
      BY DEF WallInv, TableTypes, Row
    <2>3. x \in Job /\ x.next = "done" /\ "resolve" \in PC
      BY <2>2 DEF NoJob, Job, PC
    <2> HIDE DEF x
    <2>4. JobOK("resolve", x, content) /\ ~Opening("resolve", x)
          /\ "resolve" \notin VotePC
      BY <2>3 DEF JobOK, Opening, VotePC
    <2>5. Start(h, "resolve", x) /\ UNCHANGED <<content, counters, reacted, vote, rest>>
      BY <1>1, <2>1 DEF Read, x
    <2>6. QED
      BY <2>3, <2>4, <2>5, StartJobs
  <1>2. ASSUME NEW t \in Targets, content[t].status # "none",
               Start(h, "delete", [NoJob EXCEPT !.id = t]),
               UNCHANGED <<content, counters, reacted, vote, rest>>
        PROVE  WallInv'
    <2> DEFINE x == [NoJob EXCEPT !.id = t]
    <2>1. x \in Job /\ "delete" \in PC /\ x.id = t
      BY DEF NoJob, Job, PC, Anyone
    <2> HIDE DEF x
    <2>2. JobOK("delete", x, content) /\ ~Opening("delete", x)
          /\ "delete" \notin VotePC
      BY <1>2, <2>1 DEF JobOK, Opening, VotePC
    <2>3. Start(h, "delete", x)
      BY <1>2 DEF x
    <2>4. QED
      BY <1>2, <2>1, <2>2, <2>3, StartJobs
  <1>3. ASSUME DeletePost(h) PROVE WallInv'
    BY <1>2, <1>3 DEF DeletePost, Visible, Targets
  <1>4. ASSUME NEW r \in Replies, DeleteReply(h, r) PROVE WallInv'
    BY <1>2, <1>4 DEF DeleteReply, Targets
  <1>5. ASSUME NEW u \in Users, NEW l \in {"reply", "bookmark"},
               Start(h, l, [NoJob EXCEPT !.user = u]),
               UNCHANGED <<content, counters, reacted, vote, rest>>
        PROVE  WallInv'
    <2> DEFINE x == [NoJob EXCEPT !.user = u]
    <2>1. x \in Job /\ l \in PC /\ x.user = u /\ x.next = "done"
      BY DEF NoJob, Job, PC, Anyone
    <2> HIDE DEF x
    <2>2. JobOK(l, x, content) /\ ~Opening(l, x) /\ l \notin VotePC
      BY <2>1 DEF JobOK, Opening, VotePC
    <2>3. Start(h, l, x)
      BY <1>5 DEF x
    <2>4. QED
      BY <1>5, <2>1, <2>2, <2>3, StartJobs
  <1>6. ASSUME NEW u \in Users, CreateReply(h, u) \/ Bookmark(h, u)
        PROVE  WallInv'
    BY <1>5, <1>6 DEF CreateReply, Bookmark
  <1>7. ASSUME NEW u \in Users, NEW t \in Targets, NEW l \in {"react", "unreact"},
               React(h, u, t, l)
        PROVE  WallInv'
    <2> DEFINE m == IF t = Post THEN l ELSE "target_post"
               x == [NoJob EXCEPT !.user = u, !.id = t,
                                  !.next = IF t = Post THEN "done" ELSE l]
    <2>1. x.user = u /\ x.id = t /\ x.next = IF t = Post THEN "done" ELSE l
      BY DEF NoJob
    <2>2. x \in Job /\ m \in PC
      BY DEF NoJob, Job, PC, Anyone
    <2> HIDE DEF x
    <2>3. JobOK(m, x, content) /\ ~Opening(m, x) /\ m \notin VotePC
      BY <2>1 DEF JobOK, Opening, VotePC, Targets
    <2>4. Start(h, m, x) /\ UNCHANGED <<content, counters, reacted, vote, rest>>
      BY <1>7 DEF React, x
    <2> HIDE DEF m
    <2>5. QED
      BY <2>2, <2>3, <2>4, StartJobs
  <1>8. ASSUME NEW u \in Users, NEW o \in Options, VotePoll(h, u, o)
        PROVE  WallInv'
    <2> DEFINE x == [NoJob EXCEPT !.user = u, !.id = o]
    <2>1. x \in Job /\ "vote" \in PC /\ x.user = u /\ x.id = o
      BY DEF NoJob, Job, PC, Anyone
    <2> HIDE DEF x
    <2>2. JobOK("vote", x, content) /\ ~Opening("vote", x)
      BY <2>1 DEF JobOK, Opening, VotePC
    <2>3. /\ Start(h, "vote", x) /\ DOMAIN poll = Options
          /\ UNCHANGED <<content, counters, reacted, vote, rest>>
      BY <1>8 DEF VotePoll, PollOpen, x
    <2>4. QED
      BY <2>1, <2>2, <2>3, StartJobs
  <1>9. QED
    BY <1>1, <1>3, <1>4, <1>6, <1>7, <1>8, CreatePostStep DEF Call

LEMMA ReplySteps ==
    ASSUME WallInv, NEW h \in Handlers,
           InsertReply(h) \/ SoftDelete(h) \/ IncReplyCount(h) \/ DecReplyCount(h)
    PROVE  WallInv'
  <1>1. /\ pc[h] \in {"reply", "delete", "reply_inc", "reply_dec"}
        /\ job[h] \in Job /\ JobOK(pc[h], job[h], content)
        /\ UNCHANGED <<reactionCount, poll, reacted, vote, fails>>
    BY Knows DEF InsertReply, SoftDelete, IncReplyCount, DecReplyCount,
       counters, rest
  <1>2. Lasting /\ replyCount' \in Int
    <2>1. CASE InsertReply(h)
      <3>1. job[h].user \in Users
        BY <1>1, <2>1 DEF InsertReply, JobOK
      <3>2. QED
        BY <2>1, <3>1 DEF InsertReply, Lasting, WallInv, TableTypes, Row, Anyone,
           Targets, counters
    <2>2. CASE SoftDelete(h)
      <3>1. /\ content' = [content EXCEPT ![job[h].id].status = "deleted"]
            /\ replyCount' = replyCount
        BY <2>2 DEF SoftDelete, counters
      <3>2. content \in [Targets -> Row] /\ replyCount \in Int
        BY DEF WallInv, TableTypes
      <3>3. \A t \in Targets :
               content'[t] = IF t = job[h].id
                                THEN [status |-> "deleted", author |-> content[t].author]
                                ELSE content[t]
        BY <3>1, <3>2 DEF Row
      <3>4. \A t \in Targets : content'[t] \in Row
        <4>1. SUFFICES ASSUME NEW t \in Targets PROVE content'[t] \in Row
          OBVIOUS
        <4>2. content[t] \in Row
          BY <3>2
        <4>3. [status |-> "deleted", author |-> content[t].author] \in Row
          BY <4>2 DEF Row
        <4>4. QED
          BY <3>3, <4>2, <4>3
      <3>5. content' \in [Targets -> Row]
        BY <3>1, <3>2, <3>4
      <3>6. QED
        BY <3>1, <3>2, <3>3, <3>5 DEF Lasting
    <2>3. CASE IncReplyCount(h) \/ DecReplyCount(h)
      BY <2>3, SameContent DEF IncReplyCount, DecReplyCount, WallInv, TableTypes
    <2>4. QED
      BY <1>1, <2>1, <2>2, <2>3
  <1>3. HandlerTypes' /\ JobsOK' /\ PollOnce'
    <2>1. ASSUME NEW l \in {"reply_inc", "resolve", "reply_dec", "done"},
                 Goto(h, l),
                 l \in {"reply_inc", "resolve"} => job[h].next = "done"
          PROVE  HandlerTypes' /\ JobsOK' /\ PollOnce'
      <3>1. /\ l \in PC /\ JobOK(l, job[h], content')
            /\ ~Opening(l, job[h]) /\ l \notin VotePC
        BY <2>1 DEF PC, JobOK, Opening, VotePC
      <3>2. QED
        BY <1>1, <1>2, <2>1, <3>1, GotoJobs
    <2>2. pc[h] \in {"reply", "reply_inc"} => job[h].next = "done"
      BY <1>1 DEF JobOK
    <2>3. QED
      BY <2>1, <2>2 DEF InsertReply, SoftDelete, IncReplyCount, DecReplyCount
  <1>4. QED
    BY <1>1, <1>2, <1>3 DEF WallInv, TableTypes, Lasting

LEMMA ReactSteps ==
    ASSUME WallInv, NEW h \in Handlers,
           \/ TargetPost(h) \/ ReactRead(h) \/ ReactInsert(h) \/ Unreact(h)
           \/ AddBookmark(h)
    PROVE  WallInv'
  <1>1. /\ pc[h] \in {"target_post", "react", "react_insert", "unreact", "bookmark"}
        /\ job[h] \in Job /\ JobOK(pc[h], job[h], content)
        /\ UNCHANGED <<content, replyCount, poll, vote, fails>>
    BY Knows DEF TargetPost, ReactRead, ReactInsert, Unreact, AddBookmark,
       counters, rest
  <1>2. reacted' \in [Targets -> SUBSET Users] /\ reactionCount' \in [Targets -> Nat]
    <2>1. CASE UNCHANGED <<reacted, reactionCount>>
      BY <2>1 DEF WallInv, TableTypes
    <2>2. reacted \in [Targets -> SUBSET Users] /\ reactionCount \in [Targets -> Nat]
      BY DEF WallInv, TableTypes
    <2>3. CASE ReactInsert(h)
      <3>1. job[h].user \in Users /\ job[h].id \in Targets
        BY <1>1, <2>3 DEF ReactInsert, JobOK
      <3>2. CASE /\ reacted' = [reacted EXCEPT ![job[h].id] = @ \cup {job[h].user}]
                 /\ reactionCount' = [reactionCount EXCEPT ![job[h].id] = @ + 1]
        <4>1. reacted' \in [Targets -> SUBSET Users]
          BY <2>2, <3>1, <3>2
        <4>2. reactionCount' \in [Targets -> Nat]
          BY <2>2, <3>1, <3>2
        <4>3. QED
          BY <4>1, <4>2
      <3>3. QED
        BY <2>1, <2>3, <3>2 DEF ReactInsert
    <2>4. CASE Unreact(h)
      BY <2>2, <2>4 DEF Unreact
    <2>5. QED
      BY <2>1, <2>3, <2>4 DEF TargetPost, ReactRead, AddBookmark, counters
  <1>3. ASSUME NEW l \in {"resolve", "done", "react", "unreact", "react_insert"},
               Goto(h, l),
               l = "resolve" => pc[h] \in {"react", "react_insert"} /\ job[h].id = Post,
               l = "react_insert" => pc[h] = "react",
               l \in {"react", "unreact"} => pc[h] = "target_post"
        PROVE  HandlerTypes' /\ JobsOK' /\ PollOnce'
    <2>1. l \in {"react", "unreact"} => job[h].id \in Targets /\ job[h].id # Post
      BY <1>1, <1>3 DEF JobOK, Targets
    <2>2. l # "done" => /\ JobOK(l, job[h], content') /\ ~Opening(l, job[h])
      BY <1>1, <1>3, <2>1 DEF JobOK, Opening, VotePC
    <2>3. l \in PC /\ l \notin VotePC
      BY DEF PC, VotePC
    <2>4. QED
      BY <1>1, <1>3, <2>2, <2>3, GotoJobs, SameContent
  <1>4. HandlerTypes' /\ JobsOK' /\ PollOnce'
    <2>1. CASE TargetPost(h)
      <3>1. job[h].next \in {"react", "unreact"}
        BY <1>1, <2>1 DEF TargetPost, JobOK
      <3>2. QED
        BY <1>3, <2>1, <3>1 DEF TargetPost
    <2>2. CASE ReactRead(h)
      BY <1>3, <2>2 DEF ReactRead, Answer
    <2>3. CASE ReactInsert(h)
      BY <1>3, <2>3 DEF ReactInsert, Answer
    <2>4. CASE Unreact(h) \/ AddBookmark(h)
      BY <1>3, <2>4 DEF Unreact, AddBookmark
    <2>5. QED
      BY <2>1, <2>2, <2>3, <2>4
  <1>5. QED
    BY <1>1, <1>2, <1>4 DEF WallInv, TableTypes

LEMMA VoteSteps ==
    ASSUME WallInv, NEW h \in Handlers,
           VoteRead(h) \/ VoteDec(h) \/ VoteRow(h) \/ VoteInsert(h)
    PROVE  WallInv'
  <1>1. /\ pc[h] \in VotePC /\ job[h] \in Job /\ DOMAIN poll = Options
        /\ JobOK(pc[h], job[h], content)
        /\ UNCHANGED <<content, counters, reacted, vote, fails>>
    BY Knows DEF VoteRead, VoteDec, VoteRow, VoteInsert, rest, VotePC
  <1>2. ASSUME NEW l \in {"done", "vote_row", "vote_inc"}, Goto(h, l),
               pc[h] # "vote"
        PROVE  WallInv'
    <2>1. l \in PC /\ JobOK(l, job[h], content) /\ ~Opening(l, job[h])
      BY <1>1, <1>2 DEF PC, JobOK, Opening, VotePC
    <2>2. QED
      BY <1>1, <1>2, <2>1, GoOn
  <1>3. CASE VoteRead(h)
    <2> DEFINE prev == vote[job[h].user]
               l == IF prev = None THEN "vote_insert" ELSE "vote_dec"
               x == [job[h] EXCEPT !.prev = prev]
    <2>1. /\ job[h].user \in Users /\ job[h].id \in Options
          /\ prev \in Options \cup {None}
      BY <1>1 DEF JobOK, WallInv, TableTypes
    <2>2. CASE Goto(h, "done")
      <3>1. "done" \in PC
        BY DEF PC
      <3>2. QED
        BY <1>1, <2>2, <3>1, GoOn
    <2>3. CASE /\ prev # job[h].id
               /\ pc' = [pc EXCEPT ![h] = l]
               /\ job' = [job EXCEPT ![h] = x]
      <3>1. /\ x \in Job /\ x.prev = prev /\ x.user = job[h].user
            /\ x.id = job[h].id
        BY <1>1, <2>1 DEF Job
      <3>2. l \in {"vote_insert", "vote_dec"} /\ (l = "vote_insert" => prev = None)
        OBVIOUS
      <3> HIDE DEF x, l
      <3>3. /\ l \in PC /\ JobOK(l, x, content') /\ ~Opening(l, x)
        BY <2>1, <2>3, <3>1, <3>2 DEF PC, JobOK, Opening, VotePC
      <3>4. HandlerTypes' /\ JobsOK' /\ PollOnce'
        BY <1>1, <2>3, <3>1, <3>3, MoveJobs, SameContent DEF counters
      <3>5. QED
        BY <1>1, <3>4 DEF WallInv, TableTypes, counters
    <2>4. QED
      BY <1>3, <2>2, <2>3 DEF VoteRead
  <1>4. QED
    BY <1>2, <1>3 DEF VoteDec, VoteRow, VoteInsert

(* The votes and options after a commit. *)
LEMMA VoteCommitted ==
    ASSUME WallInv, NEW h \in Handlers, VoteCommit(h)
    PROVE  /\ pc[h] = "vote_inc" /\ Goto(h, "done")
           /\ job[h].user \in Users /\ job[h].id \in Options
           /\ job[h].prev \in Options \cup {None} /\ job[h].prev # job[h].id
           /\ DOMAIN poll = Options /\ DOMAIN poll' = Options
           /\ vote' = [vote EXCEPT ![job[h].user] = job[h].id]
           /\ \A o \in Options :
                 poll'[o] = IF o = job[h].id THEN poll[o] + 1
                            ELSE IF o = job[h].prev /\ poll[o] > 0
                                    THEN poll[o] - 1 ELSE poll[o]
           /\ poll' \in [Options -> Nat]
           /\ UNCHANGED <<content, replyCount, reactionCount, reacted, fails>>
  <1>1. /\ pc[h] = "vote_inc" /\ Goto(h, "done")
        /\ vote' = [vote EXCEPT ![job[h].user] = job[h].id]
        /\ UNCHANGED <<content, replyCount, reactionCount, reacted, fails>>
    BY DEF VoteCommit, rest
  <1>2. /\ JobOK("vote_inc", job[h], content) /\ job[h] \in Job
        /\ DOMAIN poll = Options
    BY <1>1, Knows DEF VotePC
  <1>3. /\ job[h].user \in Users /\ job[h].id \in Options
        /\ job[h].prev \in Options \cup {None} /\ job[h].prev # job[h].id
    BY <1>2 DEF JobOK, VotePC, Job
  <1>4. poll' = [o \in Options |->
                  CASE o = job[h].id -> poll[o] + 1
                    [] o = job[h].prev /\ poll[o] > 0 -> poll[o] - 1
                    [] OTHER -> poll[o]]
    BY DEF VoteCommit
  <1>5. \A o \in Options : poll[o] \in Nat
    BY <1>2 DEF WallInv, TableTypes
  <1>6. DOMAIN poll' = Options /\ poll' = [o \in Options |-> poll'[o]]
    BY <1>4
  <1>7. ASSUME NEW o \in Options
        PROVE  poll'[o] = IF o = job[h].id THEN poll[o] + 1
                          ELSE IF o = job[h].prev /\ poll[o] > 0
                                  THEN poll[o] - 1 ELSE poll[o]
    BY <1>3, <1>4
  <1>8. \A o \in Options : poll'[o] \in Nat
    BY <1>5, <1>7
  <1>9. poll' \in [Options -> Nat]
    BY <1>6, <1>8
  <1>10. QED
    BY <1>1, <1>2, <1>3, <1>6, <1>7, <1>9

LEMMA VoteCommitStep ==
    ASSUME WallInv, NEW h \in Handlers, VoteCommit(h)
    PROVE  WallInv'
  <1>1. /\ pc' = [pc EXCEPT ![h] = "done"] /\ job' = [job EXCEPT ![h] = NoJob]
        /\ UNCHANGED <<content, replyCount, reactionCount, reacted, fails>>
        /\ DOMAIN poll = Options /\ DOMAIN poll' = Options
    BY VoteCommitted DEF Goto
  <1>2. \A q \in Handlers : /\ q # h => pc'[q] = pc[q] /\ job'[q] = job[q]
                            /\ q = h => pc'[q] = "done"
    BY <1>1 DEF WallInv, HandlerTypes
  <1>3. HandlerTypes'
    BY <1>1, NoJobType DEF WallInv, HandlerTypes, PC
  <1>4. TableTypes'
    <2>1. vote' \in [Users -> Options \cup {None}]
      BY VoteCommitted DEF WallInv, TableTypes
    <2>2. DOMAIN poll' \in {{}, Options} /\ poll' \in [DOMAIN poll' -> Nat]
      BY VoteCommitted
    <2>3. QED
      BY <1>1, <2>1, <2>2 DEF WallInv, TableTypes
  <1>5. JobsOK'
    <2>1. \A q \in Handlers : JobOK(pc'[q], job'[q], content)
      BY <1>2, Knows DEF JobOK, VotePC
    <2>2. QED
      BY <1>1, <2>1 DEF JobsOK
  <1>6. PollOnce'
    <2>1. \A q \in Handlers : Opening(pc'[q], job'[q]) => Opening(pc[q], job[q])
      BY <1>2 DEF Opening
    <2>2. QED
      BY <1>1, <2>1 DEF WallInv, PollOnce
  <1>7. QED
    BY <1>3, <1>4, <1>5, <1>6 DEF WallInv

LEMMA FailSteps ==
    ASSUME WallInv, NEW h \in Handlers, Fail(h) \/ BreakDeadlock(h)
    PROVE  WallInv'
  <1>1. "done" \in PC
    BY DEF PC
  <1>2. CASE BreakDeadlock(h)
    BY <1>1, <1>2, GoOn DEF BreakDeadlock, rest
  <1>3. CASE Fail(h)
    <2>1. HandlerTypes' /\ JobsOK' /\ PollOnce'
      BY <1>1, <1>3, GotoJobs, SameContent DEF Fail, counters
    <2>2. QED
      BY <1>3, <2>1 DEF Fail, WallInv, TableTypes, counters
  <1>4. QED
    BY <1>2, <1>3

LEMMA ModerateStep ==
    ASSUME WallInv, NEW t \in Targets, Moderate(t)
    PROVE  WallInv'
  <1>1. /\ content[t].status = "visible"
        /\ content' = [content EXCEPT ![t].status = "hidden"]
        /\ UNCHANGED <<pc, job, counters, reacted, vote, rest>>
    BY DEF Moderate, Visible
  <1>2. content \in [Targets -> Row]
    BY DEF WallInv, TableTypes
  <1>3. \A s \in Targets :
            content'[s] = IF s = t
                             THEN [status |-> "hidden", author |-> content[s].author]
                             ELSE content[s]
    BY <1>1, <1>2 DEF Row
  <1>4. ASSUME NEW s \in Targets
        PROVE  /\ content'[s] \in Row
               /\ content'[s].status = "none" <=> content[s].status = "none"
    <2>1. content[s] \in Row
      BY <1>2
    <2>2. [status |-> "hidden", author |-> content[s].author] \in Row
      BY <2>1 DEF Row
    <2>3. QED
      BY <1>1, <1>3, <2>1, <2>2
  <1>5. content' \in [Targets -> Row]
    BY <1>1, <1>2, <1>4
  <1>6. JobsOK'
    <2>1. \A q \in Handlers : JobOK(pc[q], job[q], content')
      BY <1>4, Knows DEF JobOK
    <2>2. QED
      BY <1>1, <2>1 DEF JobsOK
  <1>7. PollOnce'
    BY <1>1, <1>4 DEF WallInv, PollOnce, Targets, counters
  <1>8. QED
    BY <1>1, <1>5, <1>6, <1>7 DEF WallInv, HandlerTypes, TableTypes, counters, rest

LEMMA NextKeepsWallInv ==
    ASSUME WallInv, [Next]_vars
    PROVE  WallInv'
  <1>1. ASSUME UNCHANGED <<pc, job, content, counters, reacted, vote, fails>>
        PROVE  WallInv'
    BY <1>1 DEF WallInv, HandlerTypes, TableTypes, JobsOK, PollOnce, counters
  <1>2. ASSUME NEW h \in Handlers, Step(h) PROVE WallInv'
    BY <1>2, HandleSteps, PollOptionsStep, ReplySteps, ReactSteps, VoteSteps,
       VoteCommitStep, FailSteps DEF Step
  <1>3. QED
    BY <1>1, <1>2, CallStep, HandleSteps, FailSteps, ModerateStep DEF Next, vars, rest,
       RemoveBookmark, TrendingUpsert, TrendingClean

LEMMA InitWallInv == Init \/ Polled => WallInv
  <1>1. ASSUME Init PROVE WallInv
    <2>1. HandlerTypes
      BY <1>1, NoJobType DEF Init, HandlerTypes, PC
    <2>2. TableTypes
      BY <1>1 DEF Init, TableTypes, Row, Nothing, Anyone
    <2>3. JobsOK /\ PollOnce
      BY <1>1 DEF Init, JobsOK, JobOK, PollOnce, Opening, VotePC
    <2>4. QED
      BY <2>1, <2>2, <2>3 DEF WallInv
  <1>2. ASSUME Polled PROVE WallInv
    <2>1. HandlerTypes
      BY <1>2, NoJobType DEF Polled, HandlerTypes, PC
    <2>2. content \in [Targets -> Row]
      BY <1>2 DEF Polled, Row, Nothing, Anyone
    <2>3. poll \in [Options -> Nat] /\ DOMAIN poll = Options
      BY <1>2 DEF Polled
    <2>4. TableTypes
      BY <1>2, <2>2, <2>3 DEF Polled, TableTypes
    <2>5. \A h \in Handlers : pc[h] \in {"done", "idle"}
      BY <1>2 DEF Polled
    <2>6. JobsOK
      BY <2>5 DEF JobsOK, JobOK, VotePC
    <2>7. content[Post].status = "visible"
      BY <1>2 DEF Polled, Targets
    <2>8. PollOnce
      BY <2>3, <2>5, <2>7 DEF PollOnce, Opening
    <2>9. QED
      BY <2>1, <2>4, <2>6, <2>8 DEF WallInv
  <1>3. QED
    BY <1>1, <1>2

-----------------------------------------------------------------------------
(* What a call knows of the wall, from the empty wall on. *)
THEOREM WallInvariant == Spec => []WallInv
  BY InitWallInv, NextKeepsWallInv, PTL DEF Spec

-----------------------------------------------------------------------------
(* Reactions. *)
LEMMA FiniteUsers ==
    ASSUME NEW S \in SUBSET Users
    PROVE  IsFiniteSet(S) /\ Cardinality(S) \in Nat
  BY FS_Subset, FS_CardinalityType

LEMMA ReactionStep ==
    ASSUME WallInv, ReactionsExact, [Next]_vars
    PROVE  ReactionsExact'
  <1> USE DEF ReactionsExact
  <1>1. reacted \in [Targets -> SUBSET Users] /\ reactionCount \in [Targets -> Nat]
    BY DEF WallInv, TableTypes
  <1>2. CASE UNCHANGED <<reacted, reactionCount>>
    BY <1>2
  <1>3. ASSUME NEW h \in Handlers, ReactInsert(h) PROVE ReactionsExact'
    <2> DEFINE t == job[h].id
               u == job[h].user
               R == reacted[t] \cup {u}
    <2>1. t \in Targets /\ u \in Users
      BY <1>3, Knows DEF ReactInsert, JobOK
    <2>2. CASE UNCHANGED <<reacted, reactionCount>>
      BY <2>2
    <2>3. CASE /\ u \notin reacted[t]
               /\ reacted' = [reacted EXCEPT ![t] = R]
               /\ reactionCount' = [reactionCount EXCEPT ![t] = @ + 1]
      <3>1. IsFiniteSet(reacted[t])
        BY <1>1, <2>1, FiniteUsers
      <3>2. Cardinality(R) = Cardinality(reacted[t]) + 1
        BY <2>3, <3>1, FS_AddElement
      <3> HIDE DEF R
      <3>3. QED
        BY <1>1, <2>1, <2>3, <3>2
    <2>4. QED
      BY <1>3, <2>2, <2>3 DEF ReactInsert
  <1>4. ASSUME NEW h \in Handlers, Unreact(h) PROVE ReactionsExact'
    <2> DEFINE t == job[h].id
               u == job[h].user
               R == reacted[t] \ {u}
    <2>1. t \in Targets /\ u \in Users
      BY <1>4, Knows DEF Unreact, JobOK
    <2>2. CASE UNCHANGED <<reacted, reactionCount>>
      BY <2>2
    <2>3. CASE /\ u \in reacted[t]
               /\ reacted' = [reacted EXCEPT ![t] = R]
               /\ reactionCount' = [reactionCount EXCEPT ![t] =
                                       IF @ > 0 THEN @ - 1 ELSE 0]
      <3>1. IsFiniteSet(reacted[t]) /\ Cardinality(reacted[t]) \in Nat
        BY <1>1, <2>1, FiniteUsers
      <3>2. Cardinality(R) = Cardinality(reacted[t]) - 1
        BY <2>3, <3>1, FS_RemoveElement
      <3>3. Cardinality(R) \in Nat
        BY <1>1, <2>1, FiniteUsers
      <3> HIDE DEF R
      <3>4. reactionCount[t] > 0 /\ reactionCount[t] - 1 = Cardinality(R)
        BY <2>1, <3>1, <3>2, <3>3
      <3>5. QED
        BY <1>1, <2>1, <2>3, <3>4
    <2>4. QED
      BY <1>4, <2>2, <2>3 DEF Unreact
  <1>5. QED
    BY <1>2, <1>3, <1>4 DEF Next, vars, counters, Step, Call, Fail, Moderate,
       RemoveBookmark, TrendingUpsert, TrendingClean, Resolve, AssignHandle,
       AssignFails, Redraw, CreatePollOptions, InsertReply, IncReplyCount, SoftDelete, DecReplyCount,
       TargetPost, ReactRead, AddBookmark, VoteRead, VoteDec, VoteRow,
       VoteInsert, VoteCommit, BreakDeadlock, Read, DeletePost, CreatePost,
       CreateReply, Bookmark, DeleteReply, React, VotePoll

(* The reaction counters of the post and of the replies are the numbers of *)
(* stored reactions, however reacting and taking it back overlap.          *)
THEOREM ReactionsCorrect == Spec => []ReactionsExact
  <1>1. Init => ReactionsExact
    BY FS_EmptySet DEF Init, ReactionsExact
  <1>2. WallInv /\ ReactionsExact /\ [Next]_vars => ReactionsExact'
    BY ReactionStep
  <1>3. QED
    BY <1>1, <1>2, WallInvariant, PTL DEF Spec

-----------------------------------------------------------------------------
(* Handles.  A call shows the handle of its user, *)
LEMMA ShowStep ==
    ASSUME HandleInv, NEW u, handle[u] # None, UNCHANGED <<handle, fallback, fails>>,
           shown' = [shown EXCEPT ![u] = @ \cup {handle[u]}]
    PROVE  HandleInv'
  <1> USE DEF HandleInv
  <1>1. u \in Users => handle[u] \in Names
    OBVIOUS
  <1>2. shown' \in [Users -> SUBSET Names]
    BY <1>1
  <1>3. \A v \in Users : \A n \in shown'[v] :
            n \in shown[v] \/ (v = u /\ n = handle[u])
    OBVIOUS
  <1>4. QED
    BY <1>2, <1>3

(* stores one that is free, *)
LEMMA StoreStep ==
    ASSUME HandleInv, NEW u, NEW n \in Names, handle[u] = None,
           \A v \in Users : handle[v] # n, UNCHANGED <<fallback, fails>>,
           handle' = [handle EXCEPT ![u] = n],
           shown' = [shown EXCEPT ![u] = @ \cup {n}]
    PROVE  HandleInv'
  <1> USE DEF HandleInv
  <1>1. handle' \in [Users -> Names \cup {None}]
        /\ shown' \in [Users -> SUBSET Names]
    OBVIOUS
  <1>2. \A v \in Users : handle'[v] = IF v = u THEN n ELSE handle[v]
    OBVIOUS
  <1>3. \A v, w \in Users : handle'[v] # None /\ handle'[v] = handle'[w] => v = w
    BY <1>2
  <1>4. \A v \in Users : handle[v] # None => handle'[v] = handle[v]
    BY <1>2
  <1>5. ASSUME NEW v \in Users, NEW m \in shown'[v] PROVE m = handle'[v]
    <2>1. CASE m \in shown[v]
      <3>1. m = handle[v] /\ m \in Names /\ m # None
        BY <2>1
      <3>2. QED
        BY <1>4, <3>1
    <2>2. CASE v = u /\ m = n
      BY <1>2, <2>2
    <2>3. QED
      BY <2>1, <2>2
  <1>6. ASSUME fails = 0, NEW v \in Users, NEW m \in fallback[v]
        PROVE  \E w \in Users : handle'[w] = m
    <2>1. PICK w \in Users : handle[w] = m
      BY <1>6
    <2>2. m \in Names /\ m # None
      OBVIOUS
    <2>3. QED
      BY <1>4, <2>1, <2>2
  <1>7. QED
    BY <1>1, <1>3, <1>5, <1>6

(* or draws once more. *)
LEMMA RedrawStep ==
    ASSUME HandleInv, NEW h, NEW n \in Names, Redraw(h, n),
           UNCHANGED <<handle, shown>>,
           \/ UNCHANGED fails /\ \E v \in Users : handle[v] = n
           \/ fails' = fails + 1
    PROVE  HandleInv'
  <1> USE DEF HandleInv
  <1>1. fails' \in Nat /\ (fails' = 0 => fails = 0 /\ \E v \in Users : handle[v] = n)
    OBVIOUS
  <1>2. CASE UNCHANGED fallback
    BY <1>1, <1>2
  <1>3. CASE fallback' = [fallback EXCEPT ![job[h].user] = @ \cup {n}]
    <2>1. fallback' \in [Users -> SUBSET Names]
      BY <1>3
    <2>2. \A v \in Users : \A m \in fallback'[v] : m \in fallback[v] \/ m = n
      BY <1>3
    <2>3. QED
      BY <1>1, <2>1, <2>2
  <1>4. QED
    BY <1>2, <1>3 DEF Redraw

LEMMA HandleStep ==
    ASSUME HandleInv, [Next]_vars
    PROVE  HandleInv'
  <1>1. CASE UNCHANGED names /\ fails' \in {fails, fails + 1}
    BY <1>1 DEF names, HandleInv
  <1>2. ASSUME NEW h \in Handlers, Resolve(h) PROVE HandleInv'
    BY <1>1, <1>2, ShowStep DEF Resolve, names, rest
  <1>3. ASSUME NEW h \in Handlers, AssignHandle(h) PROVE HandleInv'
    <2> DEFINE u == job[h].user
    <2>1. fails' = fails
      BY <1>3 DEF AssignHandle, rest
    <2>2. CASE /\ handle[u] # None /\ UNCHANGED <<handle, fallback>>
               /\ shown' = [shown EXCEPT ![u] = @ \cup {handle[u]}]
      BY <2>1, <2>2, ShowStep
    <2>3. ASSUME NEW n \in Names, handle[u] = None,
                 \A v \in Users : handle[v] # n,
                 handle' = [handle EXCEPT ![u] = n],
                 shown' = [shown EXCEPT ![u] = @ \cup {n}],
                 UNCHANGED fallback
          PROVE  HandleInv'
      BY <2>1, <2>3, StoreStep
    <2>4. ASSUME NEW n \in Names, ~ \A v \in Users : handle[v] # n,
                 Redraw(h, n), UNCHANGED <<handle, shown>>
          PROVE  HandleInv'
      BY <2>1, <2>4, RedrawStep
    <2>5. QED
      BY <1>3, <2>2, <2>3, <2>4 DEF AssignHandle
  <1>4. ASSUME NEW h \in Handlers, AssignFails(h) PROVE HandleInv'
    BY <1>4, RedrawStep DEF AssignFails
  <1>5. QED
    BY <1>1, <1>2, <1>3, <1>4 DEF Next, vars, names, rest, Step, Call, Fail,
       Moderate, RemoveBookmark, TrendingUpsert, TrendingClean, ReactInsert,
       Unreact, CreatePollOptions, InsertReply, IncReplyCount, SoftDelete,
       DecReplyCount, TargetPost, ReactRead, AddBookmark, VoteRead, VoteDec,
       VoteRow, VoteInsert, VoteCommit, BreakDeadlock, Read, DeletePost,
       CreatePost, CreateReply, Bookmark, DeleteReply, React, VotePoll

(* No two users have one handle, a handle that was shown for a user is the  *)
(* user's for ever, and names that were shown without being stored were     *)
(* taken, unless a statement has failed.                                    *)
THEOREM HandlesCorrect == Spec => []OneHandleForEver
  <1>1. Init => HandleInv
    BY DEF Init, HandleInv
  <1>2. HandleInv /\ [Next]_vars => HandleInv'
    BY HandleStep
  <1>3. HandleInv => OneHandleForEver
    BY DEF HandleInv, OneHandleForEver
  <1>4. QED
    BY <1>1, <1>2, <1>3, PTL DEF Spec

-----------------------------------------------------------------------------
(* A post that is gone.  The control points at which a call is admitted.   *)
AdmittedPC == {"reply", "bookmark", "react", "react_insert", "unreact"} \cup VotePC

LEMMA GoneStep ==
    ASSUME WallInv, NEW h \in Handlers, Step(h) \/ Fail(h) \/ AssignFails(h),
           content[Post].status \in {"hidden", "deleted"},
           \A g \in Handlers : pc[g] \notin AdmittedPC
    PROVE  /\ \A g \in Handlers : pc'[g] \notin AdmittedPC
           /\ \A r \in Replies :
                 content[r].status = "none" => content'[r] = content[r]
           /\ UNCHANGED <<reacted, vote>>
           /\ bookmarks' \subseteq bookmarks
  <1> USE DEF AdmittedPC, VotePC
  <1>1. /\ pc[h] \in PC /\ JobOK(pc[h], job[h], content)
        /\ pc[h] \notin AdmittedPC
    BY Knows
  <1>2. ~Visible(Post)
    BY DEF Visible
  <1>3. ASSUME NEW l, Goto(h, l), l \notin AdmittedPC
        PROVE  \A g \in Handlers : pc'[g] \notin AdmittedPC
    BY <1>3 DEF Goto, WallInv, HandlerTypes
  <1>4. CASE Resolve(h) \/ AssignHandle(h) \/ AssignFails(h)
    <2>1. job[h].next \in {"done", "options"}
      BY <1>1, <1>4 DEF Resolve, AssignHandle, AssignFails, JobOK
    <2>2. job[h].next \notin AdmittedPC /\ "assign" \notin AdmittedPC
      BY <2>1
    <2>3. UNCHANGED <<content, reacted, vote, bookmarks>>
      BY <1>4 DEF Resolve, AssignHandle, AssignFails, rest
    <2>4. Goto(h, job[h].next) \/ Goto(h, "assign") \/ UNCHANGED pc
      BY <1>4 DEF Resolve, AssignHandle, AssignFails, Redraw
    <2>5. \A g \in Handlers : pc'[g] \notin AdmittedPC
      BY <1>3, <2>2, <2>4
    <2>6. QED
      BY <2>3, <2>5
  <1>5. CASE \/ CreatePollOptions(h) \/ IncReplyCount(h) \/ DecReplyCount(h)
             \/ Fail(h) \/ TargetPost(h)
    <2>1. UNCHANGED <<content, reacted, vote, bookmarks>>
      BY <1>5 DEF CreatePollOptions, IncReplyCount, DecReplyCount, Fail,
         TargetPost, rest
    <2>2. Goto(h, "done") \/ Goto(h, "resolve")
      BY <1>2, <1>5 DEF CreatePollOptions, IncReplyCount, DecReplyCount, Fail,
         TargetPost
    <2>3. "done" \notin AdmittedPC /\ "resolve" \notin AdmittedPC
      OBVIOUS
    <2>4. \A g \in Handlers : pc'[g] \notin AdmittedPC
      BY <1>3, <2>2, <2>3
    <2>5. QED
      BY <2>1, <2>4
  <1>6. CASE SoftDelete(h)
    <2>1. job[h].id \in Targets /\ content[job[h].id].status # "none"
      BY <1>1, <1>6 DEF SoftDelete, JobOK
    <2>2. \A r \in Replies :
             content[r].status = "none" => content'[r] = content[r]
      BY <1>6, <2>1 DEF SoftDelete, WallInv, TableTypes, Targets
    <2>3. QED
      BY <1>6, <2>2 DEF SoftDelete, Goto, rest
  <1>7. CASE BreakDeadlock(h)
    <2>1. PICK g \in Handlers : WaitsFor(h, g)
      BY <1>7 DEF BreakDeadlock
    <2>2. pc[h] \in AdmittedPC
      BY <2>1 DEF WaitsFor
    <2>3. QED
      BY <1>1, <2>2
  <1>8. QED
    BY <1>1, <1>3, <1>4, <1>5, <1>6, <1>7 DEF Step, InsertReply, ReactRead,
       ReactInsert, Unreact, AddBookmark, VoteRead, VoteDec, VoteRow,
       VoteInsert, VoteCommit

LEMMA GoneCall ==
    ASSUME WallInv, NEW h \in Handlers, Call(h),
           content[Post].status \in {"hidden", "deleted"},
           \A g \in Handlers : pc[g] \notin AdmittedPC
    PROVE  /\ \A g \in Handlers : pc'[g] \notin AdmittedPC
           /\ UNCHANGED <<content, reacted, vote, bookmarks>>
  <1> USE DEF AdmittedPC, VotePC
  <1>1. ~Visible(Post) /\ content[Post].status # "none"
    BY DEF Visible
  <1>2. ASSUME NEW l \in {"resolve", "delete", "target_post"}, NEW x, Start(h, l, x)
        PROVE  \A g \in Handlers : pc'[g] \notin AdmittedPC
    BY <1>2 DEF Start, WallInv, HandlerTypes
  <1>3. ASSUME NEW u \in Users, NEW t \in Targets, NEW l \in {"react", "unreact"},
               React(h, u, t, l)
        PROVE  /\ \A g \in Handlers : pc'[g] \notin AdmittedPC
               /\ UNCHANGED <<content, reacted, vote, bookmarks>>
    <2>1. t # Post
      BY <1>1, <1>3 DEF React
    <2>2. QED
      BY <1>2, <1>3, <2>1 DEF React, rest
  <1>4. QED
    BY <1>1, <1>2, <1>3 DEF Call, Read, DeletePost, CreatePost, CreateReply,
       Bookmark, DeleteReply, VotePoll, rest

(* Once no call that found the post visible is under way, a post that is   *)
(* hidden or deleted gets no reply, reaction, vote or bookmark.            *)
THEOREM GoneCorrect == Spec => GoneIsClosed
  <1> DEFINE Closed ==
                content[Post].status \in {"hidden", "deleted"} /\ ~Admitted =>
                  /\ ~Admitted'
                  /\ \A r \in Replies :
                        content[r].status = "none" => content'[r] = content[r]
                  /\ UNCHANGED <<reacted, vote>>
                  /\ bookmarks' \subseteq bookmarks
  <1>1. Admitted <=> \E g \in Handlers : pc[g] \in AdmittedPC
    BY DEF Admitted, AdmittedPC, VotePC
  <1>2. Admitted' <=> \E g \in Handlers : pc'[g] \in AdmittedPC
    BY DEF Admitted, AdmittedPC, VotePC
  <1>3. ASSUME WallInv, [Next]_vars,
               content[Post].status \in {"hidden", "deleted"}, ~Admitted
        PROVE  /\ ~Admitted'
               /\ \A r \in Replies :
                     content[r].status = "none" => content'[r] = content[r]
               /\ UNCHANGED <<reacted, vote>>
               /\ bookmarks' \subseteq bookmarks
    <2>1. CASE UNCHANGED <<pc, content, reacted, vote, bookmarks>>
      BY <1>1, <1>2, <1>3, <2>1
    <2>2. ASSUME NEW t \in Targets, Moderate(t)
          PROVE  /\ ~Admitted'
                 /\ \A r \in Replies :
                       content[r].status = "none" => content'[r] = content[r]
                 /\ UNCHANGED <<reacted, vote>>
                 /\ bookmarks' \subseteq bookmarks
      BY <1>1, <1>2, <1>3, <2>2 DEF Moderate, Visible, WallInv, TableTypes, rest
    <2>3. ASSUME NEW u \in Users, RemoveBookmark(u)
          PROVE  /\ ~Admitted'
                 /\ \A r \in Replies :
                       content[r].status = "none" => content'[r] = content[r]
                 /\ UNCHANGED <<reacted, vote>>
                 /\ bookmarks' \subseteq bookmarks
      BY <1>1, <1>2, <1>3, <2>3 DEF RemoveBookmark
    <2>4. ASSUME NEW h \in Handlers, Step(h) \/ Call(h) \/ Fail(h) \/ AssignFails(h)
          PROVE  /\ ~Admitted'
                 /\ \A r \in Replies :
                       content[r].status = "none" => content'[r] = content[r]
                 /\ UNCHANGED <<reacted, vote>>
                 /\ bookmarks' \subseteq bookmarks
      BY <1>1, <1>2, <1>3, <2>4, GoneStep, GoneCall
    <2>5. QED
      BY <1>3, <2>1, <2>2, <2>3, <2>4 DEF Next, vars, rest, TrendingUpsert,
         TrendingClean
  <1>4. WallInv /\ [Next]_vars => [Closed]_vars
    BY <1>3
  <1>5. QED
    BY <1>4, WallInvariant, PTL DEF Spec, GoneIsClosed

-----------------------------------------------------------------------------
(* The counters of replies and votes, while nothing disturbs them. *)
LEMMA OneMoves ==
    ASSUME NEW S \in SUBSET Handlers, NEW T \in SUBSET Handlers,
           NEW h \in Handlers, S \ {h} = T \ {h}
    PROVE  /\ Cardinality(S) \in Nat
           /\ h \in T /\ h \notin S => Cardinality(T) = Cardinality(S) + 1
           /\ h \in S /\ h \notin T => Cardinality(T) = Cardinality(S) - 1
           /\ (h \in S <=> h \in T) => Cardinality(T) = Cardinality(S)
  <1>1. IsFiniteSet(Handlers)
    BY FS_Interval DEF Handlers
  <1>2. IsFiniteSet(S) /\ Cardinality(S) \in Nat
    BY <1>1, FS_Subset, FS_CardinalityType
  <1>3. CASE h \in T /\ h \notin S
    <2>1. T = S \cup {h}
      BY <1>3
    <2>2. QED
      BY <1>2, <1>3, <2>1, FS_AddElement
  <1>4. CASE h \in S /\ h \notin T
    <2>1. T = S \ {h}
      BY <1>4
    <2>2. QED
      BY <1>2, <1>4, <2>1, FS_RemoveElement
  <1>5. CASE h \in S <=> h \in T
    <2>1. S = T
      BY <1>5
    <2>2. QED
      BY <1>2, <2>1
  <1>6. QED
    BY <1>3, <1>4, <1>5

(* How many calls are before a counter of replies, after a step of h. *)
LEMMA RepliesMove ==
    ASSUME HandlerTypes, NEW h \in Handlers, NEW l \in PC, pc' = [pc EXCEPT ![h] = l]
    PROVE  /\ At("reply_inc") \in Nat /\ At("reply_dec") \in Nat
           /\ At("reply_inc")' =
                 IF "reply_inc" = l /\ pc[h] # "reply_inc" THEN At("reply_inc") + 1
                 ELSE IF "reply_inc" = pc[h] /\ l # "reply_inc" THEN At("reply_inc") - 1
                 ELSE At("reply_inc")
           /\ At("reply_dec")' =
                 IF "reply_dec" = l /\ pc[h] # "reply_dec" THEN At("reply_dec") + 1
                 ELSE IF "reply_dec" = pc[h] /\ l # "reply_dec" THEN At("reply_dec") - 1
                 ELSE At("reply_dec")
  <1>1. /\ At("reply_inc") \in Nat
        /\ At("reply_inc")' = IF "reply_inc" = l /\ pc[h] # "reply_inc" THEN At("reply_inc") + 1
                            ELSE IF "reply_inc" = pc[h] /\ l # "reply_inc" THEN At("reply_inc") - 1
                            ELSE At("reply_inc")
    <2> DEFINE S == {q \in Handlers : pc[q] = "reply_inc"}
               T == {q \in Handlers : pc'[q] = "reply_inc"}
    <2>1. At("reply_inc") = Cardinality(S) /\ At("reply_inc")' = Cardinality(T)
      BY DEF At
    <2>2. /\ S \in SUBSET Handlers /\ T \in SUBSET Handlers /\ S \ {h} = T \ {h}
          /\ h \in S <=> pc[h] = "reply_inc"
          /\ h \in T <=> l = "reply_inc"
      BY DEF HandlerTypes
    <2> HIDE DEF S, T
    <2>3. /\ Cardinality(S) \in Nat
          /\ h \in T /\ h \notin S => Cardinality(T) = Cardinality(S) + 1
          /\ h \in S /\ h \notin T => Cardinality(T) = Cardinality(S) - 1
          /\ (h \in S <=> h \in T) => Cardinality(T) = Cardinality(S)
      BY <2>2, OneMoves
    <2>4. QED
      BY <2>1, <2>2, <2>3
  <1>2. /\ At("reply_dec") \in Nat
        /\ At("reply_dec")' = IF "reply_dec" = l /\ pc[h] # "reply_dec" THEN At("reply_dec") + 1
                            ELSE IF "reply_dec" = pc[h] /\ l # "reply_dec" THEN At("reply_dec") - 1
                            ELSE At("reply_dec")
    <2> DEFINE S == {q \in Handlers : pc[q] = "reply_dec"}
               T == {q \in Handlers : pc'[q] = "reply_dec"}
    <2>1. At("reply_dec") = Cardinality(S) /\ At("reply_dec")' = Cardinality(T)
      BY DEF At
    <2>2. /\ S \in SUBSET Handlers /\ T \in SUBSET Handlers /\ S \ {h} = T \ {h}
          /\ h \in S <=> pc[h] = "reply_dec"
          /\ h \in T <=> l = "reply_dec"
      BY DEF HandlerTypes
    <2> HIDE DEF S, T
    <2>3. /\ Cardinality(S) \in Nat
          /\ h \in T /\ h \notin S => Cardinality(T) = Cardinality(S) + 1
          /\ h \in S /\ h \notin T => Cardinality(T) = Cardinality(S) - 1
          /\ (h \in S <=> h \in T) => Cardinality(T) = Cardinality(S)
      BY <2>2, OneMoves
    <2>4. QED
      BY <2>1, <2>2, <2>3
  <1>3. QED
    BY <1>1, <1>2

LEMMA OthersKnow ==
    ASSUME WallInv, Undisturbed, Tallied, NEW h \in Handlers, NEW l, NEW x,
           pc' = [pc EXCEPT ![h] = l], job' = [job EXCEPT ![h] = x],
           \A r \in Stored : r \in Stored' \/ (pc[h] = "delete" /\ r = job[h].id),
           \A u \in Users :
              vote'[u] = vote[u] \/ (pc[h] = "vote_inc" /\ u = job[h].user),
           l = "delete" /\ x.id \in Replies => x.id \in Stored',
           l \in {"vote_dec", "vote_row", "vote_inc"} => vote'[x.user] = x.prev
    PROVE  \A q \in Handlers :
              /\ pc'[q] = "delete" /\ job'[q].id \in Replies => job'[q].id \in Stored'
              /\ pc'[q] \in {"vote_dec", "vote_row", "vote_inc"} =>
                    vote'[job'[q].user] = job'[q].prev
  <1>1. SUFFICES ASSUME NEW q \in Handlers
                 PROVE  /\ pc'[q] = "delete" /\ job'[q].id \in Replies
                              => job'[q].id \in Stored'
                        /\ pc'[q] \in {"vote_dec", "vote_row", "vote_inc"} =>
                              vote'[job'[q].user] = job'[q].prev
    OBVIOUS
  <1>2. /\ q = h => pc'[q] = l /\ job'[q] = x
        /\ q # h => pc'[q] = pc[q] /\ job'[q] = job[q]
    BY DEF WallInv, HandlerTypes
  <1>3. CASE q = h
    BY <1>2, <1>3
  <1>4. CASE q # h
    <2>1. /\ pc[q] = "delete" /\ pc[h] = "delete" => job[q].id # job[h].id
          /\ pc[q] \in {"vote_dec", "vote_row", "vote_inc"} /\ pc[h] = "vote_inc"
                => job[q].user # job[h].user
      BY <1>4 DEF Undisturbed
    <2>2. pc[q] \in {"vote_dec", "vote_row", "vote_inc"} => job[q].user \in Users
      BY Knows DEF JobOK, VotePC
    <2>3. /\ pc[q] = "delete" /\ job[q].id \in Replies => job[q].id \in Stored
          /\ pc[q] \in {"vote_dec", "vote_row", "vote_inc"} =>
                vote[job[q].user] = job[q].prev
      BY DEF Tallied
    <2>4. QED
      BY <1>2, <1>4, <2>1, <2>2, <2>3
  <1>5. QED
    BY <1>3, <1>4

(* A step to l with locals x that touches neither replies nor their counter. *)
LEMMA VotesTallied ==
    ASSUME WallInv, Undisturbed, Tallied, NEW h \in Handlers, NEW l \in PC, NEW x,
           pc' = [pc EXCEPT ![h] = l], job' = [job EXCEPT ![h] = x],
           Stored' = Stored, UNCHANGED replyCount,
           \A o \in DOMAIN poll' : poll'[o] = Cardinality({u \in Users : vote'[u] = o}),
           \A u \in Users :
              vote'[u] = vote[u] \/ (pc[h] = "vote_inc" /\ u = job[h].user),
           pc[h] \notin {"reply_inc", "reply_dec"},
           l \notin {"reply_inc", "reply_dec"},
           l = "delete" /\ x.id \in Replies => x.id \in Stored,
           l \in {"vote_dec", "vote_row", "vote_inc"} => vote'[x.user] = x.prev
    PROVE  Tallied'
  <1>1. HandlerTypes
    BY DEF WallInv
  <1>2. At("reply_inc")' = At("reply_inc") /\ At("reply_dec")' = At("reply_dec")
    BY <1>1, RepliesMove DEF PC
  <1>3. CountersFollow'
    BY <1>2 DEF Tallied, CountersFollow
  <1>4. \A q \in Handlers :
              /\ pc'[q] = "delete" /\ job'[q].id \in Replies => job'[q].id \in Stored'
              /\ pc'[q] \in {"vote_dec", "vote_row", "vote_inc"} =>
                    vote'[job'[q].user] = job'[q].prev
    BY OthersKnow
  <1>5. IsFiniteSet(Stored')
    BY DEF Tallied
  <1>6. QED
    BY <1>3, <1>4, <1>5 DEF Tallied

(* Nor votes. *)
LEMMA StillTallied ==
    ASSUME WallInv, Undisturbed, Tallied, NEW h \in Handlers, NEW l \in PC, NEW x,
           pc' = [pc EXCEPT ![h] = l], job' = [job EXCEPT ![h] = x],
           Stored' = Stored, UNCHANGED <<replyCount, poll, vote>>,
           pc[h] \notin {"reply_inc", "reply_dec"},
           l \notin {"reply_inc", "reply_dec"},
           l = "delete" /\ x.id \in Replies => x.id \in Stored,
           l \in {"vote_dec", "vote_row", "vote_inc"} => vote[x.user] = x.prev
    PROVE  Tallied'
  <1>1. \A o \in DOMAIN poll' : poll'[o] = Cardinality({u \in Users : vote'[u] = o})
    BY DEF Tallied, CountersFollow
  <1>2. QED
    BY <1>1, VotesTallied

LEMMA TallyReply ==
    ASSUME WallInv, Undisturbed, Tallied, NEW h \in Handlers,
           InsertReply(h) \/ IncReplyCount(h) \/ SoftDelete(h) \/ DecReplyCount(h)
    PROVE  Tallied'
  <1>1. HandlerTypes /\ content \in [Targets -> Row] /\ replyCount \in Int
    BY DEF WallInv, TableTypes
  <1>2. UNCHANGED <<poll, vote>>
    BY DEF InsertReply, IncReplyCount, SoftDelete, DecReplyCount, counters
  <1>3. IsFiniteSet(Stored) /\ Cardinality(Stored) \in Nat
    BY FS_CardinalityType DEF Tallied
  <1>4. replyCount + At("reply_inc") - At("reply_dec") = Cardinality(Stored)
    BY DEF Tallied, CountersFollow
  <1>5. ASSUME NEW l \in {"resolve", "reply_inc", "reply_dec", "done"}, Goto(h, l),
               IsFiniteSet(Stored'),
               \A r \in Stored : r \in Stored' \/ (pc[h] = "delete" /\ r = job[h].id),
               replyCount' + At("reply_inc")' - At("reply_dec")' = Cardinality(Stored')
        PROVE  Tallied'
    <2> DEFINE x == IF l = "done" THEN NoJob ELSE job[h]
    <2>1. pc' = [pc EXCEPT ![h] = l] /\ job' = [job EXCEPT ![h] = x]
      BY <1>5 DEF Goto
    <2> HIDE DEF x
    <2>2. \A q \in Handlers :
              /\ pc'[q] = "delete" /\ job'[q].id \in Replies => job'[q].id \in Stored'
              /\ pc'[q] \in {"vote_dec", "vote_row", "vote_inc"} =>
                    vote'[job'[q].user] = job'[q].prev
      BY <1>2, <1>5, <2>1, OthersKnow
    <2>3. CountersFollow'
      BY <1>2, <1>5 DEF Tallied, CountersFollow
    <2>4. QED
      BY <1>5, <2>2, <2>3 DEF Tallied
  <1>6. CASE InsertReply(h)
    <2>1. PICK r \in Replies :
             /\ content[r].status = "none"
             /\ content' = [content EXCEPT ![r] =
                               [status |-> "visible", author |-> job[h].user]]
      BY <1>6 DEF InsertReply
    <2>2. Stored' = Stored \cup {r} /\ r \notin Stored
      BY <1>1, <2>1 DEF Stored, Targets
    <2>3. IsFiniteSet(Stored') /\ Cardinality(Stored') = Cardinality(Stored) + 1
      BY <1>3, <2>2, FS_AddElement
    <2>4. /\ pc[h] = "reply" /\ Goto(h, "reply_inc")
          /\ pc' = [pc EXCEPT ![h] = "reply_inc"] /\ replyCount' = replyCount
      BY <1>6 DEF InsertReply, counters, Goto
    <2>5. At("reply_inc")' = At("reply_inc") + 1 /\ At("reply_dec")' = At("reply_dec")
          /\ At("reply_inc") \in Nat /\ At("reply_dec") \in Nat
      BY <1>1, <2>4, RepliesMove DEF PC
    <2>6. replyCount' + At("reply_inc")' - At("reply_dec")' = Cardinality(Stored')
      BY <1>1, <1>3, <1>4, <2>3, <2>4, <2>5
    <2>7. QED
      BY <1>5, <2>2, <2>3, <2>4, <2>6
  <1>7. CASE IncReplyCount(h)
    <2>1. /\ pc[h] = "reply_inc" /\ Goto(h, "resolve")
          /\ pc' = [pc EXCEPT ![h] = "resolve"]
          /\ replyCount' = replyCount + 1 /\ Stored' = Stored
      BY <1>7 DEF IncReplyCount, Stored, Goto
    <2>2. At("reply_inc")' = At("reply_inc") - 1 /\ At("reply_dec")' = At("reply_dec")
          /\ At("reply_inc") \in Nat /\ At("reply_dec") \in Nat
      BY <1>1, <2>1, RepliesMove DEF PC
    <2>3. replyCount' + At("reply_inc")' - At("reply_dec")' = Cardinality(Stored')
      BY <1>1, <1>3, <1>4, <2>1, <2>2
    <2>4. QED
      BY <1>3, <1>5, <2>1, <2>3
  <1>8. CASE DecReplyCount(h)
    <2>1. /\ pc[h] = "reply_dec" /\ Goto(h, "done")
          /\ pc' = [pc EXCEPT ![h] = "done"]
          /\ replyCount' = replyCount - 1 /\ Stored' = Stored
      BY <1>8 DEF DecReplyCount, Stored, Goto
    <2>2. At("reply_inc")' = At("reply_inc") /\ At("reply_dec")' = At("reply_dec") - 1
          /\ At("reply_inc") \in Nat /\ At("reply_dec") \in Nat
      BY <1>1, <2>1, RepliesMove DEF PC
    <2>3. replyCount' + At("reply_inc")' - At("reply_dec")' = Cardinality(Stored')
      BY <1>1, <1>3, <1>4, <2>1, <2>2
    <2>4. QED
      BY <1>3, <1>5, <2>1, <2>3
  <1>9. CASE SoftDelete(h)
    <2> DEFINE i == job[h].id
    <2>1. /\ pc[h] = "delete" /\ replyCount' = replyCount
          /\ content' = [content EXCEPT ![i].status = "deleted"]
          /\ Goto(h, IF i = Post THEN "done" ELSE "reply_dec")
      BY <1>9 DEF SoftDelete, counters
    <2>2. i \in Targets
      BY <2>1, Knows DEF JobOK
    <2>3. \A t \in Targets :
             content'[t] = IF t = i THEN [status |-> "deleted", author |-> content[t].author]
                                    ELSE content[t]
      BY <1>1, <2>1 DEF Row
    <2>4. CASE i = Post
      <3>1. Stored' = Stored
        BY <2>3, <2>4 DEF Stored, Targets
      <3>2. pc' = [pc EXCEPT ![h] = "done"]
        BY <2>1, <2>4 DEF Goto
      <3>3. At("reply_inc")' = At("reply_inc") /\ At("reply_dec")' = At("reply_dec")
        BY <1>1, <2>1, <3>2, RepliesMove DEF PC
      <3>4. replyCount' + At("reply_inc")' - At("reply_dec")' = Cardinality(Stored')
        BY <1>4, <2>1, <3>1, <3>3
      <3>5. QED
        BY <1>3, <1>5, <2>1, <2>4, <3>1, <3>4
    <2>5. CASE i # Post
      <3>1. i \in Replies /\ i \in Stored
        BY <2>1, <2>2, <2>5 DEF Targets, Tallied
      <3>2. Stored' = Stored \ {i}
        <4> HIDE DEF i
        <4>1. \A t \in Replies : t \in Targets
          BY DEF Targets
        <4>2. ASSUME NEW t \in Replies
              PROVE  t \in Stored' <=> t \in Stored /\ t # i
          <5>1. t \in Targets
            BY <4>1
          <5>2. t # i => content'[t] = content[t]
            BY <2>3, <5>1
          <5>3. t = i => content'[t].status = "deleted"
            <6>1. t = i => content'[t] = [status |-> "deleted", author |-> content[t].author]
              BY <2>3, <5>1
            <6>2. QED
              BY <6>1
          <5>4. QED
            BY <5>2, <5>3 DEF Stored
        <4>3. Stored \subseteq Replies /\ Stored' \subseteq Replies
          BY DEF Stored
        <4>4. QED
          BY <4>2, <4>3
      <3>3. IsFiniteSet(Stored') /\ Cardinality(Stored') = Cardinality(Stored) - 1
        <4> HIDE DEF i
        <4>1. /\ IsFiniteSet(Stored \ {i})
              /\ Cardinality(Stored \ {i}) = Cardinality(Stored) - 1
          BY <1>3, <3>1, FS_RemoveElement
        <4>2. QED
          BY <3>2, <4>1
      <3>4. At("reply_inc")' = At("reply_inc") /\ At("reply_dec")' = At("reply_dec") + 1
            /\ At("reply_inc") \in Nat /\ At("reply_dec") \in Nat
        <4>1. pc' = [pc EXCEPT ![h] = "reply_dec"]
          BY <2>1, <2>5 DEF Goto
        <4>2. QED
          BY <1>1, <2>1, <4>1, RepliesMove DEF PC
      <3>5. replyCount' + At("reply_inc")' - At("reply_dec")' = Cardinality(Stored')
        BY <1>1, <1>3, <1>4, <2>1, <3>3, <3>4
      <3>6. QED
        BY <1>5, <2>1, <2>5, <3>2, <3>3, <3>5
    <2>6. QED
      BY <2>4, <2>5
  <1>10. QED
    BY <1>6, <1>7, <1>8, <1>9

LEMMA TallyCommit ==
    ASSUME WallInv, Undisturbed, Tallied, NEW h \in Handlers, VoteCommit(h)
    PROVE  Tallied'
  <1> DEFINE u == job[h].user
             new == job[h].id
             old == job[h].prev
  <1>1. /\ pc[h] = "vote_inc" /\ Goto(h, "done")
        /\ u \in Users /\ new \in Options /\ old # new
        /\ DOMAIN poll = Options /\ DOMAIN poll' = Options
        /\ vote' = [vote EXCEPT ![u] = new]
        /\ UNCHANGED <<content, replyCount>>
    BY VoteCommitted
  <1>2. \A o \in Options :
           poll'[o] = IF o = new THEN poll[o] + 1
                      ELSE IF o = old /\ poll[o] > 0 THEN poll[o] - 1 ELSE poll[o]
    BY VoteCommitted
  <1>3. vote[u] = old
    BY <1>1 DEF Tallied
  <1>4. \A v \in Users : vote'[v] = IF v = u THEN new ELSE vote[v]
    BY <1>1 DEF WallInv, TableTypes
  <1> HIDE DEF u, new, old
  <1>5. ASSUME NEW o \in Options
        PROVE  poll'[o] = Cardinality({v \in Users : vote'[v] = o})
    <2> DEFINE S == {v \in Users : vote[v] = o}
               T == {v \in Users : vote'[v] = o}
    <2>1. IsFiniteSet(S) /\ Cardinality(S) \in Nat /\ poll[o] = Cardinality(S)
      <3>1. poll[o] = Cardinality(S)
        BY <1>1 DEF Tallied, CountersFollow
      <3>2. S \in SUBSET Users
        OBVIOUS
      <3> HIDE DEF S
      <3>3. QED
        BY <3>1, <3>2, FS_Subset, FS_CardinalityType
    <2>2. CASE o = new
      <3>1. T = S \cup {u} /\ u \notin S
        BY <1>1, <1>3, <1>4, <2>2
      <3> HIDE DEF S, T
      <3>2. Cardinality(T) = Cardinality(S) + 1
        BY <2>1, <3>1, FS_AddElement
      <3>3. Cardinality(T) = poll'[o]
        BY <1>2, <2>1, <2>2, <3>2
      <3>4. QED
        BY <3>3 DEF T
    <2>3. CASE o = old
      <3>1. T = S \ {u} /\ u \in S
        BY <1>1, <1>3, <1>4, <2>3
      <3> HIDE DEF S, T
      <3>2. Cardinality(T) = Cardinality(S) - 1 /\ Cardinality(S) > 0
        <4>1. Cardinality(T) = Cardinality(S) - 1
          BY <2>1, <3>1, FS_RemoveElement
        <4>2. Cardinality(S) # 0
          BY <2>1, <3>1, FS_EmptySet
        <4>3. QED
          BY <2>1, <4>1, <4>2
      <3>3. Cardinality(T) = poll'[o]
        BY <1>1, <1>2, <2>1, <2>3, <3>2
      <3>4. QED
        BY <3>3 DEF T
    <2>4. CASE o # new /\ o # old
      <3>1. T = S
        BY <1>1, <1>3, <1>4, <2>4
      <3> HIDE DEF S, T
      <3>2. Cardinality(T) = poll'[o]
        BY <1>2, <2>1, <2>4, <3>1
      <3>3. QED
        BY <3>2 DEF T
    <2>5. QED
      BY <2>2, <2>3, <2>4
  <1>6. pc' = [pc EXCEPT ![h] = "done"] /\ job' = [job EXCEPT ![h] = NoJob]
    BY <1>1 DEF Goto
  <1>7. Stored' = Stored
    BY <1>1 DEF Stored
  <1>8. \A v \in Users :
           vote'[v] = vote[v] \/ (pc[h] = "vote_inc" /\ v = job[h].user)
    BY <1>1, <1>4 DEF u
  <1>9. \A o \in DOMAIN poll' : poll'[o] = Cardinality({v \in Users : vote'[v] = o})
    BY <1>1, <1>5
  <1>10. "done" \in PC
    BY DEF PC
  <1>11. QED
    BY <1>1, <1>6, <1>7, <1>8, <1>9, <1>10, VotesTallied

LEMMA TallyOptions ==
    ASSUME WallInv, Undisturbed, Tallied, NEW h \in Handlers, CreatePollOptions(h)
    PROVE  Tallied'
  <1>1. /\ pc[h] = "options" /\ poll' = [o \in Options |-> 0]
        /\ pc' = [pc EXCEPT ![h] = "done"] /\ job' = [job EXCEPT ![h] = NoJob]
        /\ UNCHANGED <<content, replyCount, vote>>
    BY DEF CreatePollOptions, Goto
  <1>2. DOMAIN poll = {}
    BY <1>1 DEF WallInv, PollOnce, Opening
  <1>3. ASSUME NEW o \in Options
        PROVE  poll'[o] = Cardinality({v \in Users : vote'[v] = o})
    <2>1. \A v \in Users : vote'[v] = None
      BY <1>1, <1>2 DEF WallInv, PollOnce
    <2>2. {v \in Users : vote'[v] = o} = {}
      BY <2>1
    <2>3. QED
      BY <1>1, <2>2, FS_EmptySet
  <1>4. \A o \in DOMAIN poll' : poll'[o] = Cardinality({v \in Users : vote'[v] = o})
    BY <1>1, <1>3
  <1>5. Stored' = Stored /\ "done" \in PC
    BY <1>1 DEF Stored, PC
  <1>6. QED
    BY <1>1, <1>4, <1>5, VotesTallied

(* A call goes on. *)
LEMMA TallyGoto ==
    ASSUME WallInv, Undisturbed, Tallied, NEW h \in Handlers, NEW l \in PC,
           Goto(h, l), UNCHANGED <<content, replyCount, poll, vote>>,
           pc[h] \notin {"reply_inc", "reply_dec"},
           l \notin {"reply_inc", "reply_dec", "delete"},
           l \in {"vote_dec", "vote_row", "vote_inc"} =>
              vote[job[h].user] = job[h].prev
    PROVE  Tallied'
  <1> DEFINE x == IF l = "done" THEN NoJob ELSE job[h]
  <1>1. pc' = [pc EXCEPT ![h] = l] /\ job' = [job EXCEPT ![h] = x]
    BY DEF Goto
  <1>2. Stored' = Stored
    BY DEF Stored
  <1>3. l \in {"vote_dec", "vote_row", "vote_inc"} => vote[x.user] = x.prev
    OBVIOUS
  <1> HIDE DEF x
  <1>4. QED
    BY <1>1, <1>2, <1>3, StillTallied

LEMMA TallyHandles ==
    ASSUME WallInv, Undisturbed, Tallied, NEW h \in Handlers,
           Resolve(h) \/ AssignHandle(h)
    PROVE  Tallied'
  <1>1. /\ pc[h] \in {"resolve", "assign"} /\ JobOK(pc[h], job[h], content)
        /\ UNCHANGED <<content, replyCount, poll, vote>>
    BY Knows DEF Resolve, AssignHandle, counters
  <1>2. job[h].next \in {"done", "options"}
    BY <1>1 DEF JobOK
  <1>3. ASSUME NEW l \in {"done", "options", "assign"}, Goto(h, l)
        PROVE  Tallied'
    <2>1. l \in PC
      BY DEF PC
    <2>2. QED
      BY <1>1, <1>3, <2>1, TallyGoto
  <1>4. CASE pc[h] = "assign" /\ UNCHANGED pc
             /\ job' = [job EXCEPT ![h].draws = @ + 1]
    <2> DEFINE x == [job[h] EXCEPT !.draws = @ + 1]
    <2>1. pc' = [pc EXCEPT ![h] = "assign"] /\ job' = [job EXCEPT ![h] = x]
      BY <1>4 DEF WallInv, HandlerTypes
    <2> HIDE DEF x
    <2>2. Stored' = Stored /\ "assign" \in PC
      BY <1>1 DEF Stored, PC
    <2>3. QED
      BY <1>1, <2>1, <2>2, StillTallied
  <1>5. Goto(h, job[h].next) \/ Goto(h, "assign")
        \/ (pc[h] = "assign" /\ UNCHANGED pc /\ job' = [job EXCEPT ![h].draws = @ + 1])
    BY DEF Resolve, AssignHandle, Redraw
  <1>6. QED
    BY <1>2, <1>3, <1>4, <1>5

LEMMA TallyStep ==
    ASSUME WallInv, Undisturbed, Tallied, NEW h \in Handlers, Step(h)
    PROVE  Tallied'
  <1>1. /\ job[h] \in Job /\ JobOK(pc[h], job[h], content)
    BY Knows
  <1>2. CASE \/ TargetPost(h) \/ ReactRead(h) \/ ReactInsert(h) \/ Unreact(h)
             \/ AddBookmark(h) \/ BreakDeadlock(h)
    <2>1. UNCHANGED <<content, replyCount, poll, vote>>
      BY <1>2 DEF TargetPost, ReactRead, ReactInsert, Unreact, AddBookmark,
         BreakDeadlock, counters
    <2>2. pc[h] \in {"target_post", "react", "react_insert", "unreact",
                     "bookmark"} \cup VotePC
      <3>1. CASE BreakDeadlock(h)
        <4>1. PICK g \in Handlers : WaitsFor(h, g)
          BY <3>1 DEF BreakDeadlock
        <4>2. QED
          BY <4>1 DEF WaitsFor, VotePC
      <3>2. QED
        BY <1>2, <3>1 DEF TargetPost, ReactRead, ReactInsert, Unreact, AddBookmark
    <2>3. pc[h] = "target_post" => job[h].next \in {"react", "unreact"}
      BY <1>1 DEF JobOK
    <2>4. \E l \in {"done", "react", "unreact", "react_insert", "resolve"} : Goto(h, l)
      <3>1. CASE TargetPost(h)
        BY <2>3, <3>1 DEF TargetPost
      <3>2. CASE ReactRead(h) \/ ReactInsert(h)
        BY <3>2 DEF ReactRead, ReactInsert, Answer
      <3>3. QED
        BY <1>2, <3>1, <3>2 DEF Unreact, AddBookmark, BreakDeadlock
    <2>5. PICK l \in {"done", "react", "unreact", "react_insert", "resolve"} : Goto(h, l)
      BY <2>4
    <2>6. l \in PC
      BY DEF PC
    <2>7. pc[h] \notin {"reply_inc", "reply_dec"}
      BY <2>2 DEF VotePC
    <2>8. QED
      BY <2>1, <2>5, <2>6, <2>7, TallyGoto
  <1>3. CASE VoteRead(h)
    <2> DEFINE prev == vote[job[h].user]
               l == IF prev = None THEN "vote_insert" ELSE "vote_dec"
               x == [job[h] EXCEPT !.prev = prev]
    <2>1. pc[h] = "vote" /\ UNCHANGED <<content, replyCount, poll, vote>>
      BY <1>3 DEF VoteRead, counters
    <2>2. CASE Goto(h, "done")
      BY <2>1, <2>2, TallyGoto DEF PC
    <2>3. CASE pc' = [pc EXCEPT ![h] = l] /\ job' = [job EXCEPT ![h] = x]
      <3>1. x.prev = prev /\ x.user = job[h].user
        BY <1>1 DEF Job
      <3>2. vote[x.user] = x.prev
        BY <3>1
      <3>3. l \in PC /\ l \notin {"reply_inc", "reply_dec", "delete"}
        BY DEF PC
      <3>4. Stored' = Stored
        BY <2>1 DEF Stored
      <3> HIDE DEF l, x
      <3>5. QED
        BY <2>1, <2>3, <3>2, <3>3, <3>4, StillTallied
    <2>4. QED
      BY <1>3, <2>2, <2>3 DEF VoteRead
  <1>4. CASE VoteDec(h) \/ VoteRow(h)
    <2>1. /\ pc[h] \in {"vote_dec", "vote_row"}
          /\ UNCHANGED <<content, replyCount, poll, vote>>
      BY <1>4 DEF VoteDec, VoteRow, counters
    <2>2. vote[job[h].user] = job[h].prev
      BY <2>1 DEF Tallied
    <2>3. Goto(h, "vote_row") \/ Goto(h, "vote_inc")
      BY <1>4 DEF VoteDec, VoteRow
    <2>4. "vote_row" \in PC /\ "vote_inc" \in PC
      BY DEF PC
    <2>5. QED
      BY <2>1, <2>2, <2>3, <2>4, TallyGoto
  <1>5. CASE VoteInsert(h)
    <2>1. pc[h] = "vote_insert" /\ UNCHANGED <<content, replyCount, poll, vote>>
      BY <1>5 DEF VoteInsert, counters
    <2>2. job[h].prev = None
      BY <1>1, <2>1 DEF JobOK, VotePC
    <2>3. Goto(h, "done") \/ (Goto(h, "vote_inc") /\ vote[job[h].user] = None)
      BY <1>5 DEF VoteInsert
    <2>4. "done" \in PC /\ "vote_inc" \in PC
      BY DEF PC
    <2>5. QED
      BY <2>1, <2>2, <2>3, <2>4, TallyGoto
  <1>6. QED
    BY <1>2, <1>3, <1>4, <1>5, TallyHandles, TallyOptions, TallyReply,
       TallyCommit DEF Step

LEMMA TallyCall ==
    ASSUME WallInv, Undisturbed, Tallied, NEW h \in Handlers, Call(h)
    PROVE  Tallied'
  <1> DEFINE First == {"resolve", "delete", "reply", "target_post", "react",
                       "unreact", "bookmark", "vote"}
  <1>1. First \subseteq PC
    BY DEF PC
  <1>2. ASSUME NEW l \in First, NEW x, Start(h, l, x), Stored' = Stored,
               UNCHANGED <<replyCount, poll, vote>>,
               l = "delete" /\ x.id \in Replies => x.id \in Stored
        PROVE  Tallied'
    <2>1. /\ pc[h] = "idle"
          /\ pc' = [pc EXCEPT ![h] = l] /\ job' = [job EXCEPT ![h] = x]
      BY <1>2 DEF Start
    <2>2. l \in PC
      BY <1>1
    <2>3. QED
      BY <1>2, <2>1, <2>2, StillTallied
  <1>3. UNCHANGED <<replyCount, poll, vote>>
    BY DEF Call, Read, DeletePost, CreatePost, CreateReply, Bookmark,
       DeleteReply, React, VotePoll, counters
  <1>4. Stored' = Stored
    <2>1. CASE UNCHANGED content
      BY <2>1 DEF Stored
    <2>2. ASSUME NEW u \in Users, CreatePost(h, u)
          PROVE  Stored' = Stored
      <3>1. \A s \in Replies : content'[s] = content[s]
        BY <2>2 DEF CreatePost, WallInv, TableTypes, Targets
      <3>2. QED
        BY <3>1 DEF Stored
    <2>3. QED
      BY <2>1, <2>2 DEF Call, Read, DeletePost, CreateReply, Bookmark,
         DeleteReply, React, VotePoll
  <1>5. \A l \in First : \A x : Start(h, l, x) /\ l # "delete" => Tallied'
    BY <1>2, <1>3, <1>4
  <1>6. CASE DeletePost(h)
    <2>1. Start(h, "delete", [NoJob EXCEPT !.id = Post])
      BY <1>6 DEF DeletePost
    <2>2. [NoJob EXCEPT !.id = Post].id = Post
      BY DEF NoJob
    <2>3. QED
      BY <1>2, <1>3, <1>4, <2>1, <2>2
  <1>7. ASSUME NEW r \in Replies, DeleteReply(h, r)
        PROVE  Tallied'
    <2>1. Start(h, "delete", [NoJob EXCEPT !.id = r]) /\ r \in Stored
      BY <1>7 DEF DeleteReply, Stored
    <2>2. [NoJob EXCEPT !.id = r].id = r
      BY DEF NoJob
    <2>3. QED
      BY <1>2, <1>3, <1>4, <2>1, <2>2
  <1>8. QED
    BY <1>5, <1>6, <1>7 DEF Call, Read, CreatePost, CreateReply, Bookmark,
       React, VotePoll

LEMMA TallyNext ==
    ASSUME WallInv, TallyInv, MCNext
    PROVE  TallyInv'
  <1>1. SUFFICES ASSUME orderly, Undisturbed'
                 PROVE  Tallied'
    BY DEF MCNext, TallyInv
  <1>2. Undisturbed /\ Tallied
    BY <1>1 DEF TallyInv
  <1>3. ASSUME UNCHANGED <<pc, job, replyCount, poll, vote>>, Stored' = Stored
        PROVE  Tallied'
    BY <1>2, <1>3 DEF Tallied, CountersFollow, At
  <1>4. ASSUME NEW t \in Targets, Moderate(t)
        PROVE  Tallied'
    <2>1. content' = [content EXCEPT ![t].status = "hidden"]
          /\ content[t].status = "visible"
          /\ UNCHANGED <<pc, job, replyCount, poll, vote>>
      BY <1>4 DEF Moderate, Visible, counters
    <2>2. ASSUME NEW s \in Replies
          PROVE  s \in Stored' <=> s \in Stored
      <3>1. s \in Targets
        BY DEF Targets
      <3>2. s # t => content'[s] = content[s]
        BY <2>1, <3>1 DEF WallInv, TableTypes
      <3>3. s = t => content'[s].status = "hidden"
        BY <2>1, <3>1 DEF WallInv, TableTypes, Row
      <3>4. QED
        BY <2>1, <3>2, <3>3 DEF Stored
    <2>3. Stored' = Stored
      BY <2>2 DEF Stored
    <2>4. QED
      BY <1>3, <2>1, <2>3
  <1>5. ASSUME UNCHANGED <<pc, job, content, replyCount, poll, vote>>
        PROVE  Tallied'
    BY <1>3, <1>5 DEF Stored
  <1>6. ASSUME NEW h \in Handlers, Fail(h) \/ AssignFails(h)
        PROVE  FALSE
    BY <1>1, <1>2, <1>6 DEF Fail, AssignFails, Undisturbed
  <1>7. QED
    BY <1>2, <1>4, <1>5, <1>6, TallyStep, TallyCall DEF MCNext, Next,
       RemoveBookmark, TrendingUpsert, TrendingClean, counters

(* In a history in which no call is cut short, no two calls delete one     *)
(* reply and no two vote for one user at the same time, the reply counter  *)
(* and the counts of the poll are exact.                                   *)
THEOREM CountersCorrect == MCSpec => []CountersExact
  <1>1. MCInit => WallInv /\ TallyInv
    <2>1. SUFFICES ASSUME MCInit PROVE WallInv /\ TallyInv
      OBVIOUS
    <2>2. WallInv
      BY <2>1, InitWallInv DEF MCInit
    <2>3. /\ \A h \in Handlers : pc[h] \in {"idle", "done"}
          /\ \A r \in Replies : content[r].status = "none"
          /\ replyCount = 0 /\ fails = 0
      BY <2>1 DEF MCInit, Init, Polled, Targets, Nothing
    <2>4. Undisturbed
      BY <2>3 DEF Undisturbed
    <2>5. Stored = {} /\ IsFiniteSet(Stored) /\ Cardinality(Stored) = 0
      <3>1. Stored = {}
        BY <2>3 DEF Stored
      <3>2. QED
        BY <3>1, FS_EmptySet
    <2>6. At("reply_inc") = 0 /\ At("reply_dec") = 0
      <3>1. /\ {h \in Handlers : pc[h] = "reply_inc"} = {}
            /\ {h \in Handlers : pc[h] = "reply_dec"} = {}
        BY <2>3
      <3>2. QED
        BY <3>1, FS_EmptySet DEF At
    <2>7. \A o \in DOMAIN poll : poll[o] = Cardinality({u \in Users : vote[u] = o})
      BY <2>1 DEF MCInit, Init, Polled
    <2>8. Tallied
      BY <2>3, <2>5, <2>6, <2>7 DEF Tallied, CountersFollow
    <2>9. QED
      BY <2>2, <2>4, <2>8 DEF TallyInv
  <1>2. WallInv /\ TallyInv /\ [MCNext]_<<vars, orderly>> => WallInv' /\ TallyInv'
    <2>1. ASSUME WallInv, TallyInv, MCNext PROVE WallInv' /\ TallyInv'
      BY <2>1, TallyNext, NextKeepsWallInv DEF MCNext
    <2>2. ASSUME WallInv, TallyInv, UNCHANGED <<vars, orderly>>
          PROVE  WallInv' /\ TallyInv'
      <3>1. WallInv'
        BY <2>2, NextKeepsWallInv
      <3>2. TallyInv'
        BY <2>2 DEF TallyInv, Undisturbed, Tallied, CountersFollow, At, Stored,
           vars, counters, rest
      <3>3. QED
        BY <3>1, <3>2
    <2>3. QED
      BY <2>1, <2>2
  <1>3. TallyInv => CountersExact
    BY DEF TallyInv, Tallied, CountersExact
  <1>4. QED
    BY <1>1, <1>2, <1>3, PTL DEF MCSpec
=============================================================================
