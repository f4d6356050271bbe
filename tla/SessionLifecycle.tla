-------------------------- MODULE SessionLifecycle --------------------------
(***************************************************************************)
(* What the tables anon_sessions, session_participants and match_history   *)
(* promise to their readers (chat, friend requests from a session, the     *)
(* data inspector), whatever the matching engine's handlers do:            *)
(* a session opens once, with two different users who never change; it     *)
(* closes once; and it has a history row exactly when a handler ended it,  *)
(* not when a restart expired it.                                          *)
(***************************************************************************)
CONSTANTS Sessions, Users

VARIABLES
    status,     \* "none", "active", "ended" or "expired"
    users,      \* the participants
    recorded    \* sessions with a row in match_history

lifecycle == <<status, users, recorded>>

Init ==
    /\ status = [s \in Sessions |-> "none"]
    /\ users = [s \in Sessions |-> {}]
    /\ recorded = {}

Open(s, u, v) ==
    /\ u # v
    /\ status[s] = "none"
    /\ status' = [status EXCEPT ![s] = "active"]
    /\ users' = [users EXCEPT ![s] = {u, v}]
    /\ UNCHANGED recorded

End(s) ==
    /\ status[s] = "active"
    /\ status' = [status EXCEPT ![s] = "ended"]
    /\ recorded' = recorded \cup {s}
    /\ UNCHANGED users

(* A restart closes everything that was left open. *)
ExpireAll ==
    /\ status' = [s \in Sessions |-> IF status[s] = "active" THEN "expired"
                                                            ELSE status[s]]
    /\ UNCHANGED <<users, recorded>>

Next ==
    \/ \E s \in Sessions, u, v \in Users : Open(s, u, v)
    \/ \E s \in Sessions : End(s)
    \/ ExpireAll

Spec == Init /\ [][Next]_lifecycle

-----------------------------------------------------------------------------
(* What a reader of the tables relies on: a session that was opened has    *)
(* two different participants, and match_history speaks of exactly the     *)
(* sessions that a handler ended.                                          *)
Pair == {{u, v} : u, v \in Users} \ {{u} : u \in Users}

Consistent ==
    /\ status \in [Sessions -> {"none", "active", "ended", "expired"}]
    /\ users \in [Sessions -> Pair \cup {{}}]
    /\ recorded \subseteq Sessions
    /\ \A s \in Sessions : users[s] = {} <=> status[s] = "none"
    /\ \A s \in Sessions : s \in recorded <=> status[s] = "ended"

(* A session that is over stays over and keeps its participants.           *)
NeverReopened ==
    [][\A s \in Sessions :
          /\ status[s] \in {"ended", "expired"} => status'[s] = status[s]
          /\ status[s] # "none" => users'[s] = users[s]]_lifecycle
=============================================================================
