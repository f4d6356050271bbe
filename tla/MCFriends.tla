------------------------------ MODULE MCFriends ------------------------------
(* Instances of Friends for TLC. *)
EXTENDS Friends, TLC, Functions

CONSTANTS
    u1, u2, u3, u4,
    Scenes,
    MaxBusy   \* bound: calls under way at the same time

(* What a run looks at: "pair", two users who start from nothing;          *)
(* "crossed", the same two once their sends have crossed and both requests *)
(* are pending; "crowd", one user who writes to all the others, and        *)
(* "capped", the same once a request of that user is pending.              *)
VARIABLE scene

(* The sends that a scene finds done. *)
Sent == CASE scene = "crossed" -> <<u1, u2>> :> 1 @@ <<u2, u1>> :> 2
          [] scene = "capped" -> <<u1, u2>> :> 1
          [] OTHER -> <<>>

MCInit ==
    /\ scene \in Scenes
    /\ pc = [h \in Handlers |-> IF h \in Range(Sent) THEN "done" ELSE "idle"]
    /\ job = [h \in Handlers |-> NoJob]
    /\ request = [h \in Handlers |->
          IF h \notin Range(Sent) THEN NoRequest
          ELSE LET p == CHOOSE p \in DOMAIN Sent : Sent[p] = h
               IN  [status |-> "pending", from |-> p[1], to |-> p[2]]]
    /\ recent = {}
    /\ friend = [p \in Pairs |-> "none"]
    /\ blocks = {}

(* Bound: the calls of a scene and who makes them. *)
Crowd == scene \in {"crowd", "capped"}

Cast(h) ==
    IF Crowd
    THEN h <= 3 /\ pc'[h] = "friends" /\ job'[h].user = u1
    ELSE /\ scene = "pair" => h <= 4
         /\ {job'[h].user, job'[h].other} = {u1, u2}

Busy == {h \in Handlers : pc[h] \notin {"idle", "done"}}

(* Calls are interchangeable, so they are numbered in the order in which   *)
(* they start.                                                             *)
InOrder ==
    \A h \in Handlers :
        pc[h] = "idle" /\ pc'[h] # "idle" =>
            /\ Cast(h)
            /\ \A g \in Handlers : g < h => pc[g] # "idle"

MCNext ==
    /\ Next
    /\ InOrder
    /\ Cardinality(Busy') <= (IF Crowd THEN Overlap ELSE MaxBusy)
    /\ UNCHANGED scene

(* Only calls under way take steps. *)
MCSpec ==
    /\ MCInit /\ [][MCNext]_<<vars, scene>>
    /\ \A h \in Handlers : WF_vars(h \in Busy /\ Step(h))

NobodyRefused == {}
NoBlocks == {}
OneBlock == {<<u1, u2>>}
=============================================================================
