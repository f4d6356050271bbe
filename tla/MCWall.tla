------------------------------- MODULE MCWall -------------------------------
(* Instances of Wall for TLC. *)
EXTENDS Wall

(* Whether every state so far was undisturbed. *)
VARIABLE orderly

(* A run starts with nothing or later: a poll has a vote for every option, *)
(* only its author has a handle, and two calls are left.                   *)
Author == CHOOSE u \in Users : TRUE
Name == CHOOSE n \in Names : TRUE

Polled ==
    /\ pc = [h \in Handlers |-> IF h + 1 < NCalls THEN "done" ELSE "idle"]
    /\ job = [h \in Handlers |-> NoJob]
    /\ content = [t \in Targets |->
          IF t = Post THEN [status |-> "visible", author |-> Author] ELSE Nothing]
    /\ replyCount = 0
    /\ reacted = [t \in Targets |-> {}]
    /\ reactionCount = [t \in Targets |-> 0]
    /\ vote \in [Users -> Options]
    /\ poll = [o \in Options |-> Cardinality({u \in Users : vote[u] = o})]
    /\ \A o \in Options : poll[o] = 1
    /\ bookmarks = {}
    /\ trending = FALSE
    /\ handle = [u \in Users |-> IF u = Author THEN Name ELSE None]
    /\ shown = [u \in Users |-> IF u = Author THEN {Name} ELSE {}]
    /\ fallback = [u \in Users |-> {}]
    /\ fails = 0

MCInit == (Init \/ Polled) /\ orderly = TRUE

MCNext == Next /\ orderly' = (orderly /\ Undisturbed')

MCSpec ==
    /\ MCInit /\ [][MCNext]_<<vars, orderly>>
    /\ \A h \in Handlers : WF_vars(Step(h))

(* CountersFollow after an undisturbed history. *)
CountersExact == orderly => CountersFollow
=============================================================================
