----------------------- MODULE SessionLifecycleProofs -----------------------
(* What the abstract session tables promise, for any sessions and users.   *)
EXTENDS SessionLifecycle, TLAPS

LEMMA InitConsistent == Init => Consistent
  BY DEF Init, Consistent

LEMMA NextConsistent == Consistent /\ [Next]_lifecycle => Consistent'
  <1> SUFFICES ASSUME Consistent, [Next]_lifecycle
               PROVE  Consistent'
    OBVIOUS
  <1>1. ASSUME NEW s \in Sessions, NEW u \in Users, NEW v \in Users,
               Open(s, u, v)
        PROVE  Consistent'
    <2>1. {u, v} \in Pair
      BY <1>1 DEF Open, Pair
    <2>2. QED
      BY <1>1, <2>1 DEF Open, Consistent
  <1>2. ASSUME NEW s \in Sessions, End(s)
        PROVE  Consistent'
    BY <1>2 DEF End, Consistent
  <1>3. CASE ExpireAll
    BY <1>3 DEF ExpireAll, Consistent
  <1>4. CASE UNCHANGED lifecycle
    BY <1>4 DEF lifecycle, Consistent
  <1>5. QED
    BY <1>1, <1>2, <1>3, <1>4 DEF Next

(* The tables are consistent in every state: no session without its two    *)
(* participants, no history row without an ended session or the reverse.   *)
THEOREM AlwaysConsistent == Spec => []Consistent
  BY InitConsistent, NextConsistent, PTL DEF Spec

(* No step reopens a session that is over or changes who was in it.        *)
THEOREM ClosedStaysClosed == Spec => NeverReopened
  <1> DEFINE Keeps(s) ==
         /\ status[s] \in {"ended", "expired"} => status'[s] = status[s]
         /\ status[s] # "none" => users'[s] = users[s]
  <1>1. Consistent /\ [Next]_lifecycle => [\A s \in Sessions : Keeps(s)]_lifecycle
    <2> SUFFICES ASSUME Consistent, Next, NEW s \in Sessions
                 PROVE  Keeps(s)
      BY DEF lifecycle
    <2>1. QED
      BY DEF Consistent, Next, Open, End, ExpireAll
  <1>2. QED
    BY <1>1, AlwaysConsistent, PTL DEF Spec, NeverReopened
=============================================================================
