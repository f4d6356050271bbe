--------------------------- MODULE AccountsProofs ---------------------------
(***************************************************************************)
(* Proofs about Accounts, for any tabs, admins, tokens and bans.           *)
(* AccountInv is the type invariant with what an admin's penalty is;       *)
(* CalmInv says, call by call of a tab, where the token is that the        *)
(* browser will hold at the end.                                           *)
(***************************************************************************)
EXTENDS MCAccounts, TLAPS

USE AccountsAssumption DEF AccountsAssumption

Control ==
    /\ pc \in [Procs -> PC]
    /\ job \in [Procs -> Job]
    /\ \A p \in Procs : pc[p] = "apply" => job[p].status \in Penalties

Data ==
    /\ status \in {"none", "pending", "active", "restricted", "suspended",
                   "banned", "deactivated"}
    /\ bans \in [Bans -> {"none", "timed", "expired", "endless"}]
    /\ live \subseteq Tokens
    /\ stored \in Tokens \cup {None}
    /\ access \subseteq Tabs

AccountInv == Control /\ Data

(* What a tab at l with locals x relies on, given the stored token t and   *)
(* the live tokens v: what it rotates is the stored token and live, then   *)
(* its successor is live. *)
CalmJob(l, x, t, v) ==
    /\ l \in {"find", "create"} => x.old = t /\ t \in v
    /\ l = "revoke" => x.new \in v /\ x.new # x.old
    /\ l = "check" => x.new \in v
    /\ l = "onboard" => t = None \/ t \in v

CalmInv ==
    calm => /\ ~Overlap
            /\ StoredIsLive
            /\ \A h \in Tabs : CalmJob(pc[h], job[h], stored, live)

-----------------------------------------------------------------------------
LEMMA ProcKinds ==
    /\ Tabs \subseteq Procs /\ Admins \subseteq Procs /\ Sweepers \subseteq Procs
    /\ \A p \in Admins \cup Sweepers, h \in Tabs : p # h
    /\ \A a \in Admins : a \notin Sweepers
  BY DEF Procs

LEMMA NoJobType ==
    /\ NoJob \in Job /\ NoJob.old = None /\ NoJob.new = None /\ NoJob.out = None
    /\ \A t \in Tokens \cup {None} :
          /\ [NoJob EXCEPT !.old = t] \in Job
          /\ [NoJob EXCEPT !.old = t].old = t
          /\ [NoJob EXCEPT !.out = t] \in Job
          /\ [NoJob EXCEPT !.old = t, !.out = t] \in Job
          /\ [NoJob EXCEPT !.old = t, !.out = t].old = t
    /\ \A s \in Penalties, S \in SUBSET Bans :
          /\ [NoJob EXCEPT !.status = s, !.seen = S] \in Job
          /\ [NoJob EXCEPT !.status = s, !.seen = S].status = s
  BY DEF NoJob, Job

LEMMA NewTokenType ==
    ASSUME Fresh # {}
    PROVE  /\ NewToken \in Tokens /\ NewToken \notin live /\ NewToken # stored
           /\ \A p \in Procs : NewToken # job[p].old
  <1>1. NewToken \in Fresh
    BY DEF NewToken
  <1>2. QED
    BY <1>1 DEF Fresh

(* A process moves to l with locals x. *)
LEMMA Moves ==
    ASSUME Control, NEW p \in Procs, NEW l \in PC, NEW x \in Job,
           pc' = [pc EXCEPT ![p] = l], job' = [job EXCEPT ![p] = x],
           l = "apply" => x.status \in Penalties
    PROVE  /\ Control'
           /\ pc'[p] = l /\ job'[p] = x
           /\ \A q \in Procs : q # p => pc'[q] = pc[q] /\ job'[q] = job[q]
  <1>1. \A q \in Procs : /\ pc'[q] = IF q = p THEN l ELSE pc[q]
                         /\ job'[q] = IF q = p THEN x ELSE job[q]
    BY DEF Control
  <1>2. QED
    BY <1>1 DEF Control

LEMMA GotoMoves ==
    ASSUME Control, NEW p \in Procs, NEW l \in PC \ {"apply"}, Goto(p, l)
    PROVE  /\ Control'
           /\ pc'[p] = l /\ (l # "idle" => job'[p] = job[p])
           /\ \A q \in Procs : q # p => pc'[q] = pc[q] /\ job'[q] = job[q]
  <1> DEFINE x == IF l = "idle" THEN NoJob ELSE job[p]
  <1>1. /\ pc' = [pc EXCEPT ![p] = l] /\ job' = [job EXCEPT ![p] = x]
        /\ x \in Job /\ (l # "idle" => x = job[p])
    BY NoJobType DEF Goto, Control
  <1> HIDE DEF x
  <1>2. QED
    BY <1>1, Moves

LEMMA BeginMoves ==
    ASSUME Control, NEW p \in Procs, NEW l \in PC, NEW x \in Job, Begin(p, l, x),
           l = "apply" => x.status \in Penalties
    PROVE  /\ Control' /\ pc[p] = "idle"
           /\ pc'[p] = l /\ job'[p] = x
           /\ \A q \in Procs : q # p => pc'[q] = pc[q] /\ job'[q] = job[q]
  <1>1. /\ pc[p] = "idle"
        /\ pc' = [pc EXCEPT ![p] = l] /\ job' = [job EXCEPT ![p] = x]
    BY DEF Begin
  <1>2. \A q \in Procs : /\ pc'[q] = IF q = p THEN l ELSE pc[q]
                         /\ job'[q] = IF q = p THEN x ELSE job[q]
    BY <1>1 DEF Control
  <1>3. QED
    BY <1>1, <1>2 DEF Control

(* The successor is noted. *)
LEMMA SuccessorMoves ==
    ASSUME AccountInv, NEW h \in Tabs, CreateSuccessor(h)
    PROVE  /\ Control' /\ pc[h] = "create" /\ pc'[h] = "revoke"
           /\ job'[h].new = NewToken /\ job'[h].old = job[h].old
           /\ \A q \in Procs : q # h => pc'[q] = pc[q] /\ job'[q] = job[q]
  <1> DEFINE x == [job[h] EXCEPT !.new = NewToken]
  <1>1. h \in Procs /\ job[h] \in Job /\ "revoke" \in PC
    BY ProcKinds DEF AccountInv, Control, PC
  <1>2. NewToken \in Tokens
    BY NewTokenType DEF CreateSuccessor
  <1>3. x \in Job /\ x.new = NewToken /\ x.old = job[h].old
    BY <1>1, <1>2 DEF Job
  <1>4. /\ pc[h] = "create"
        /\ pc' = [pc EXCEPT ![h] = "revoke"] /\ job' = [job EXCEPT ![h] = x]
    BY DEF CreateSuccessor
  <1> HIDE DEF x
  <1>5. QED
    BY <1>1, <1>3, <1>4, Moves DEF AccountInv

-----------------------------------------------------------------------------
(* Where each call of a tab begins, and where its steps lead. *)
LEMMA TabCallMoves ==
    ASSUME AccountInv, NEW h \in Tabs, TabCall(h)
    PROVE  /\ Control' /\ pc[h] = "idle"
           /\ \A q \in Procs : q # h => pc'[q] = pc[q] /\ job'[q] = job[q]
           /\ UNCHANGED <<bans, live, stored, access>>
           /\ pc'[h] \in {"issue", "find", "logout", "onboard", "delete_revoke"}
           /\ pc'[h] = "issue" => Allowed
           /\ pc'[h] = "onboard" => status = "pending"
           /\ pc'[h] = "find" => job'[h].old = stored /\ stored # None
           /\ pc'[h] # "delete_revoke" => UNCHANGED status
           /\ pc'[h] = "delete_revoke" => status' = "deactivated"
  <1>1. /\ h \in Procs /\ Control /\ stored \in Tokens \cup {None}
        /\ NoJob \in Job
    BY ProcKinds, NoJobType DEF AccountInv, Data
  <1>2. {"issue", "find", "logout", "onboard", "delete_revoke"} \subseteq PC
    BY DEF PC
  <1>3. CASE Login(h)
    <2>1. Begin(h, "issue", NoJob) /\ Allowed
          /\ UNCHANGED <<status, bans, live, stored, access>>
      BY <1>3 DEF Login, account, browser
    <2>2. QED
      BY <1>1, <1>2, <2>1, BeginMoves
  <1>4. CASE TryRefresh(h)
    <2>1. Begin(h, "find", [NoJob EXCEPT !.old = stored])
      BY <1>4 DEF TryRefresh
    <2>2. [NoJob EXCEPT !.old = stored] \in Job /\ [NoJob EXCEPT !.old = stored].old = stored
      BY <1>1, NoJobType
    <2>3. QED
      BY <1>1, <1>2, <1>4, <2>1, <2>2, BeginMoves DEF TryRefresh, account, browser
  <1>5. CASE Logout(h)
    <2> DEFINE x == [NoJob EXCEPT !.out = stored]
               y == [NoJob EXCEPT !.old = stored, !.out = stored]
    <2>1. Begin(h, "logout", x) \/ Begin(h, "find", y)
      BY <1>5 DEF Logout
    <2>2. x \in Job /\ y \in Job /\ y.old = stored
      BY <1>1, NoJobType
    <2> HIDE DEF x, y
    <2>3. QED
      BY <1>1, <1>2, <1>5, <2>1, <2>2, BeginMoves DEF Logout, account, browser
  <1>6. CASE CompleteProfile(h)
    <2>1. Begin(h, "onboard", NoJob) /\ status = "pending"
          /\ UNCHANGED <<status, bans, live, stored, access>>
      BY <1>6 DEF CompleteProfile, account, browser
    <2>2. QED
      BY <1>1, <1>2, <2>1, BeginMoves
  <1>7. CASE DeleteAccount(h)
    <2>1. Begin(h, "delete_revoke", NoJob) /\ status' = "deactivated"
          /\ UNCHANGED <<bans, live, stored, access>>
      BY <1>7 DEF DeleteAccount, browser
    <2>2. QED
      BY <1>1, <1>2, <2>1, BeginMoves
  <1>8. QED
    BY <1>3, <1>4, <1>5, <1>6, <1>7 DEF TabCall


(* What a step of a tab at l does to the tokens: x are its locals before,  *)
(* m is where it goes and y its locals there. *)
Rotates(l, x, m, y) ==
    \/ /\ l = "issue" /\ m = "idle"
       /\ live' = live \cup {stored'} /\ stored' \in Tokens
    \/ /\ l = "find" /\ m = "create" /\ y = x /\ x.old \in live
       /\ UNCHANGED <<live, stored>>
    \/ /\ l = "find" /\ m = "idle" /\ x.old \notin live
       /\ UNCHANGED live /\ stored' \in {None, stored}
    \/ /\ l = "create" /\ m = "revoke" /\ y.new = NewToken /\ y.old = x.old
       /\ Fresh # {} /\ live' = live \cup {NewToken} /\ UNCHANGED stored
    \/ /\ l = "revoke" /\ m = "check" /\ y = x
       /\ live' = live \ {x.old} /\ UNCHANGED stored
    \/ /\ l = "check" /\ m \in {"idle", "logout"}
       /\ UNCHANGED live /\ stored' \in {x.new, None, stored}
    \/ /\ l = "logout" /\ m = "logout_revoke" /\ UNCHANGED <<live, stored>>
    \/ /\ l = "logout" /\ m = "idle" /\ UNCHANGED live /\ stored' = None
    \/ /\ l = "logout_revoke" /\ m = "idle"
       /\ live' = live \ {x.out} /\ stored' = None
    \/ /\ l = "onboard" /\ m = "idle" /\ UNCHANGED <<live, stored>>
    \/ /\ l = "delete_revoke" /\ m = "idle" /\ live' = {} /\ stored' = None

LEMMA TabStepMoves ==
    ASSUME AccountInv, NEW h \in Tabs, TabStep(h)
    PROVE  /\ Control'
           /\ \A q \in Procs : q # h => pc'[q] = pc[q] /\ job'[q] = job[q]
           /\ Rotates(pc[h], job[h], pc'[h], job'[h])
           /\ UNCHANGED bans
           /\ status' = status \/ (pc[h] = "onboard" /\ status' = "active")
           /\ access' \subseteq Tabs
  <1>1. h \in Procs /\ Control /\ access \subseteq Tabs
    BY ProcKinds DEF AccountInv, Data
  <1>2. \A l \in {"idle", "create", "check", "logout", "logout_revoke"} :
           l \in PC \ {"apply"}
    BY DEF PC
  <1>3. ASSUME NEW l \in {"idle", "create", "check", "logout", "logout_revoke"},
               Goto(h, l)
        PROVE  /\ Control'
               /\ \A q \in Procs : q # h => pc'[q] = pc[q] /\ job'[q] = job[q]
               /\ pc'[h] = l /\ (l # "idle" => job'[h] = job[h])
    BY <1>1, <1>2, <1>3, GotoMoves
  <1>4. CASE IssueSession(h)
    <2>1. /\ pc[h] = "issue" /\ Goto(h, "idle") /\ NewToken \in Tokens
          /\ live' = live \cup {NewToken} /\ stored' = NewToken
          /\ UNCHANGED <<status, bans>> /\ access' \subseteq Tabs
      BY <1>1, <1>4, NewTokenType DEF IssueSession, SetTokens, account
    <2>2. QED
      BY <1>3, <2>1 DEF Rotates
  <1>5. CASE FindActiveByHash(h)
    <2>1. /\ pc[h] = "find" /\ UNCHANGED <<status, bans, live>> /\ access' \subseteq Tabs
          /\ \/ Goto(h, "create") /\ job[h].old \in live /\ UNCHANGED stored
             \/ Goto(h, "idle") /\ job[h].old \notin live /\ stored' \in {None, stored}
      BY <1>1, <1>5 DEF FindActiveByHash, ClearTokens, Unanswered, account, browser
    <2>2. QED
      BY <1>3, <2>1 DEF Rotates
  <1>6. CASE CreateSuccessor(h)
    <2>1. /\ Fresh # {} /\ live' = live \cup {NewToken}
          /\ UNCHANGED <<status, bans, stored, access>>
      BY <1>6 DEF CreateSuccessor, account, browser
    <2>2. QED
      BY <1>1, <1>6, <2>1, SuccessorMoves DEF Rotates
  <1>7. CASE RevokeById(h)
    <2>1. /\ pc[h] = "revoke" /\ Goto(h, "check") /\ live' = live \ {job[h].old}
          /\ UNCHANGED <<status, bans, stored, access>>
      BY <1>7 DEF RevokeById, account, browser
    <2>2. QED
      BY <1>1, <1>3, <2>1 DEF Rotates
  <1>8. CASE RecheckStatus(h)
    <2>1. /\ pc[h] = "check" /\ UNCHANGED <<status, bans, live>> /\ access' \subseteq Tabs
          /\ stored' \in {job[h].new, None, stored}
          /\ Goto(h, "idle") \/ Goto(h, "logout")
      BY <1>1, <1>8 DEF RecheckStatus, Refreshed, SetTokens, ClearTokens, Unanswered, account,
         browser
    <2>2. QED
      BY <1>3, <2>1 DEF Rotates
  <1>9. CASE LogoutFind(h) \/ LogoutRevoke(h)
    <2>1. /\ UNCHANGED <<status, bans>> /\ access' \subseteq Tabs
          /\ \/ /\ pc[h] = "logout" /\ Goto(h, "logout_revoke")
                /\ UNCHANGED <<live, stored>>
             \/ pc[h] = "logout" /\ Goto(h, "idle") /\ UNCHANGED live /\ stored' = None
             \/ /\ pc[h] = "logout_revoke" /\ Goto(h, "idle")
                /\ live' = live \ {job[h].out} /\ stored' = None
      BY <1>1, <1>9 DEF LogoutFind, LogoutRevoke, ClearTokens, account, browser
    <2>2. QED
      BY <1>3, <2>1 DEF Rotates
  <1>10. CASE Onboard(h)
    <2>1. /\ pc[h] = "onboard" /\ Goto(h, "idle") /\ status' = "active"
          /\ UNCHANGED <<bans, live, stored, access>>
      BY <1>10 DEF Onboard, browser
    <2>2. QED
      BY <1>1, <1>3, <2>1 DEF Rotates
  <1>11. CASE DeleteRevoke(h)
    <2>1. /\ pc[h] = "delete_revoke" /\ Goto(h, "idle") /\ live' = {} /\ stored' = None
          /\ UNCHANGED <<status, bans>> /\ access' \subseteq Tabs
      BY <1>1, <1>11 DEF DeleteRevoke, ClearTokens, account
    <2>2. QED
      BY <1>3, <2>1 DEF Rotates
  <1>12. QED
    BY <1>4, <1>5, <1>6, <1>7, <1>8, <1>9, <1>10, <1>11 DEF TabStep

(* Calls and steps of the admins and of the sweeper. *)
LEMMA AdminCallMoves ==
    ASSUME AccountInv, NEW a \in Admins, AdminCall(a)
    PROVE  /\ Control'
           /\ \A q \in Procs : q # a => pc'[q] = pc[q] /\ job'[q] = job[q]
           /\ pc'[a] \in {"apply", "teardown", "deactivate"}
           /\ UNCHANGED <<status, bans, live, stored, access>>
  <1>1. a \in Procs /\ Control /\ NoJob \in Job
    BY ProcKinds, NoJobType DEF AccountInv
  <1>2. {"apply", "teardown", "deactivate"} \subseteq PC
    BY DEF PC
  <1>3. UNCHANGED <<status, bans, live, stored, access>>
    BY DEF AdminCall, Punish, AdminDelete, Restore, account, browser
  <1>4. ASSUME NEW s \in Penalties, Punish(a, s)
        PROVE  /\ Control' /\ pc'[a] = "apply"
               /\ \A q \in Procs : q # a => pc'[q] = pc[q] /\ job'[q] = job[q]
    <2> DEFINE x == [NoJob EXCEPT !.status = s, !.seen = ActiveBans]
    <2>1. ActiveBans \in SUBSET Bans
      BY DEF ActiveBans
    <2>2. x \in Job /\ x.status = s
      BY <2>1, NoJobType
    <2>3. Begin(a, "apply", x)
      BY <1>4 DEF Punish
    <2> HIDE DEF x
    <2>4. QED
      BY <1>1, <1>2, <2>2, <2>3, BeginMoves
  <1>5. CASE AdminDelete(a) \/ Restore(a)
    <2>1. Begin(a, "teardown", NoJob) \/ Begin(a, "deactivate", NoJob)
      BY <1>5 DEF AdminDelete, Restore
    <2>2. QED
      BY <1>1, <1>2, <1>3, <2>1, BeginMoves
  <1>6. QED
    BY <1>3, <1>4, <1>5 DEF AdminCall

LEMMA OfficeMoves ==
    ASSUME AccountInv, NEW p \in Admins \cup Sweepers,
           p \in Admins => AdminStep(p), p \in Sweepers => Sweep(p)
    PROVE  /\ Control'
           /\ \A q \in Procs : q # p => pc'[q] = pc[q] /\ job'[q] = job[q]
           /\ UNCHANGED <<stored, access>> /\ live' \in {live, {}}
           /\ \/ /\ pc[p] = "apply" /\ pc'[p] \in {"teardown", "idle"}
                 /\ status' \in Penalties
                 /\ \E b \in Bans, k \in {"timed", "endless"} :
                       bans' = [c \in Bans |-> IF c = b THEN k
                                               ELSE IF c \in job[p].seen THEN "none"
                                               ELSE bans[c]]
              \/ /\ pc[p] = "teardown" /\ pc'[p] = "idle"
                 /\ UNCHANGED <<status, bans>>
              \/ /\ pc[p] \in {"deactivate", "lift"}
                 /\ UNCHANGED status /\ bans' = [b \in Bans |-> "none"]
              \/ /\ pc[p] = "activate"
                 /\ UNCHANGED bans /\ status' = "active"
              \/ /\ pc[p] \in {"lift", "lift_read", "activate"}
                 /\ UNCHANGED <<status, bans>>
              \/ /\ \E b \in Bans : bans[b] = "expired"
                 /\ UNCHANGED <<status, bans>>
  <1>1. p \in Procs /\ Control /\ NoJob \in Job /\ job[p] \in Job
    BY ProcKinds, NoJobType DEF AccountInv, Control
  <1>2. \A l \in {"idle", "teardown", "activate", "lift_read"} :
           l \in PC \ {"apply"}
    BY DEF PC
  <1>3. ASSUME NEW l \in {"idle", "teardown", "activate", "lift_read"}, Goto(p, l)
        PROVE  /\ Control' /\ pc'[p] = l
               /\ \A q \in Procs : q # p => pc'[q] = pc[q] /\ job'[q] = job[q]
    BY <1>1, <1>2, <1>3, GotoMoves
  <1>4. CASE ApplyAction(p)
    <2>1. /\ pc[p] = "apply" /\ status' = job[p].status
          /\ Goto(p, "teardown") \/ Goto(p, "idle")
          /\ UNCHANGED <<live, stored, access>>
      BY <1>4 DEF ApplyAction, browser
    <2>2. \E b \in Bans, k \in {"timed", "endless"} :
             bans' = [c \in Bans |-> IF c = b THEN k
                                     ELSE IF c \in job[p].seen THEN "none"
                                     ELSE bans[c]]
      BY <1>4 DEF ApplyAction
    <2>3. status' \in Penalties
      BY <1>1, <2>1 DEF Control
    <2>4. QED
      BY <1>3, <2>1, <2>2, <2>3
  <1>5. CASE TeardownSessions(p)
    <2>1. /\ pc[p] = "teardown" /\ Goto(p, "idle") /\ live' = {}
          /\ UNCHANGED <<status, bans, stored, access>>
      BY <1>5 DEF TeardownSessions, account, browser
    <2>2. QED
      BY <1>3, <2>1
  <1>6. CASE DeactivateBans(p)
    <2>1. /\ pc[p] = "deactivate" /\ Goto(p, "activate")
          /\ bans' = [b \in Bans |-> "none"]
          /\ UNCHANGED <<status, live, stored, access>>
      BY <1>6 DEF DeactivateBans, browser
    <2>2. QED
      BY <1>3, <2>1
  <1>7. CASE Activate(p)
    <2>1. /\ pc[p] = "activate" /\ Goto(p, "idle") /\ status' = "active"
          /\ UNCHANGED <<bans, live, stored, access>>
      BY <1>7 DEF Activate, browser
    <2>2. QED
      BY <1>3, <2>1
  <1>8. CASE p \in Sweepers /\ ExpiredActiveBans(p)
    <2>1. /\ Begin(p, "lift", NoJob) /\ \E b \in Bans : bans[b] = "expired"
          /\ UNCHANGED <<status, bans, live, stored, access>>
      BY <1>8 DEF ExpiredActiveBans, account, browser
    <2>2. "lift" \in PC
      BY DEF PC
    <2>3. QED
      BY <1>1, <2>1, <2>2, BeginMoves
  <1>9. CASE p \in Sweepers /\ LiftBans(p)
    <2>1. /\ pc[p] = "lift" /\ Goto(p, "lift_read")
          /\ bans' = [b \in Bans |-> "none"]
          /\ UNCHANGED <<status, live, stored, access>>
      BY <1>9 DEF LiftBans, browser
    <2>2. QED
      BY <1>3, <2>1
  <1>10. CASE p \in Sweepers /\ LiftRead(p)
    <2>1. /\ pc[p] = "lift_read"
          /\ Goto(p, "activate") \/ Goto(p, "idle")
          /\ UNCHANGED <<status, bans, live, stored, access>>
      BY <1>10 DEF LiftRead, account, browser
    <2>2. QED
      BY <1>3, <2>1
  <1>11. CASE p \in Sweepers /\ SweepFails(p)
    <2>1. /\ pc[p] \in {"lift", "lift_read", "activate"} /\ Goto(p, "idle")
          /\ UNCHANGED <<status, bans, live, stored, access>>
      BY <1>11 DEF SweepFails, account, browser
    <2>2. QED
      BY <1>3, <2>1
  <1>12. QED
    BY <1>4, <1>5, <1>6, <1>7, <1>8, <1>9, <1>10, <1>11
       DEF AdminStep, Sweep, SweepStep

-----------------------------------------------------------------------------
LEMMA NextKeepsAccount ==
    ASSUME AccountInv, [Next]_vars
    PROVE  AccountInv'
  <1>1. CASE UNCHANGED vars
    BY <1>1 DEF vars, account, browser, AccountInv, Control, Data
  <1>2. ASSUME NEW h \in Tabs, TabCall(h)
        PROVE  AccountInv'
    BY <1>2, TabCallMoves DEF AccountInv, Data
  <1>3. ASSUME NEW h \in Tabs, TabStep(h)
        PROVE  AccountInv'
    <2>1. /\ Control' /\ UNCHANGED bans /\ access' \subseteq Tabs
          /\ status' = status \/ status' = "active"
          /\ Rotates(pc[h], job[h], pc'[h], job'[h])
      BY <1>3, TabStepMoves
    <2>2. job[h].new \in Tokens \cup {None}
      BY ProcKinds DEF AccountInv, Control, Job
    <2>3. Fresh # {} => NewToken \in Tokens
      BY NewTokenType
    <2>4. live' \subseteq Tokens /\ stored' \in Tokens \cup {None}
      BY <2>1, <2>2, <2>3 DEF Rotates, AccountInv, Data
    <2>5. QED
      BY <2>1, <2>4 DEF AccountInv, Data
  <1>4. ASSUME NEW h \in Tabs, AccessExpires(h)
        PROVE  AccountInv'
    BY <1>4 DEF AccessExpires, account, AccountInv, Control, Data
  <1>5. ASSUME NEW a \in Admins, AdminCall(a)
        PROVE  AccountInv'
    BY <1>5, AdminCallMoves DEF AccountInv, Data
  <1>6. ASSUME NEW p \in Admins \cup Sweepers,
               p \in Admins => AdminStep(p), p \in Sweepers => Sweep(p)
        PROVE  AccountInv'
    <2>1. /\ Control' /\ UNCHANGED <<stored, access>> /\ live' \in {live, {}}
          /\ status' \in Penalties \cup {status, "active"}
          /\ \/ UNCHANGED bans
             \/ bans' = [b \in Bans |-> "none"]
             \/ \E b \in Bans, k \in {"timed", "endless"} :
                   bans' = [c \in Bans |-> IF c = b THEN k
                                           ELSE IF c \in job[p].seen THEN "none"
                                           ELSE bans[c]]
      BY <1>6, OfficeMoves
    <2>2. bans' \in [Bans -> {"none", "timed", "expired", "endless"}]
      BY <2>1 DEF AccountInv, Data
    <2>3. QED
      BY <2>1, <2>2 DEF AccountInv, Data
  <1>7. ASSUME CreateUser \/ (\E b \in Bans : BanExpires(b))
               \/ (\E t \in Tokens : RefreshExpires(t))
        PROVE  AccountInv'
    BY <1>7 DEF CreateUser, BanExpires, RefreshExpires, account, browser, AccountInv,
       Control, Data
  <1>8. QED
    BY <1>1, <1>2, <1>3, <1>4, <1>5, <1>6, <1>7, ProcKinds DEF Next

LEMMA InitAccount == Init => AccountInv
  <1>1. NoJob \in Job
    BY NoJobType
  <1>2. QED
    BY <1>1 DEF Init, AccountInv, Control, Data, PC

LEMMA AccountInvariant == Spec => []AccountInv
  <1>1. AccountInv /\ [Next]_vars => AccountInv'
    BY NextKeepsAccount
  <1>2. QED
    BY <1>1, InitAccount, PTL DEF Spec

-----------------------------------------------------------------------------
(* Every variable of an account keeps its type: a call issues, rotates and *)
(* revokes tokens, and bans, that exist.                                   *)
THEOREM AccountsTypeSafe == Spec => []TypeOK
  <1>1. AccountInv => TypeOK
    BY DEF AccountInv, Control, Data, TypeOK
  <1>2. QED
    BY <1>1, AccountInvariant, PTL

(* When no token is live and no call of a tab is past its check, a token   *)
(* can only come from a sign-in, which the status has to allow.            *)
THEOREM TeardownCorrect == Spec => TeardownSeals
  <1> DEFINE Seals ==
                Over /\ ~Over' =>
                  /\ Allowed
                  /\ \E h \in Tabs : pc[h] = "idle" /\ pc'[h] = "issue"
  <1>1. ASSUME AccountInv, [Next]_vars, Over, ~Over'
        PROVE  /\ Allowed
               /\ \E h \in Tabs : pc[h] = "idle" /\ pc'[h] = "issue"
    <2>1. /\ live = {} /\ \A h \in Tabs : pc[h] \notin {"issue", "create"}
          /\ live' # {} \/ \E h \in Tabs : pc'[h] \in {"issue", "create"}
      BY <1>1 DEF Over, Minting
    <2>2. CASE live' \subseteq live /\ \A h \in Tabs : pc'[h] = pc[h]
      BY <2>1, <2>2
    <2>3. ASSUME NEW h \in Tabs, TabCall(h)
          PROVE  /\ Allowed
                 /\ \E g \in Tabs : pc[g] = "idle" /\ pc'[g] = "issue"
      <3>1. /\ pc[h] = "idle" /\ UNCHANGED live /\ (pc'[h] = "issue" => Allowed)
            /\ pc'[h] # "create"
            /\ \A q \in Tabs : q # h => pc'[q] = pc[q]
        BY <1>1, <2>3, TabCallMoves, ProcKinds
      <3>2. pc'[h] = "issue"
        BY <2>1, <3>1
      <3>3. QED
        BY <3>1, <3>2
    <2>4. ASSUME NEW h \in Tabs, TabStep(h)
          PROVE  FALSE
      <3>1. /\ Rotates(pc[h], job[h], pc'[h], job'[h])
            /\ \A q \in Tabs : q # h => pc'[q] = pc[q]
        BY <1>1, <2>4, TabStepMoves, ProcKinds
      <3>2. live' = {} /\ pc'[h] \notin {"issue", "create"}
        BY <2>1, <3>1 DEF Rotates
      <3>3. QED
        BY <2>1, <3>1, <3>2
    <2>5. ASSUME NEW a \in Admins, AdminCall(a)
          PROVE  FALSE
      BY <1>1, <2>1, <2>5, AdminCallMoves, ProcKinds
    <2>6. ASSUME NEW p \in Admins \cup Sweepers,
                 p \in Admins => AdminStep(p), p \in Sweepers => Sweep(p)
          PROVE  FALSE
      <3>1. /\ live' \in {live, {}}
            /\ \A q \in Procs : q # p => pc'[q] = pc[q]
        BY <1>1, <2>6, OfficeMoves
      <3>2. \A h \in Tabs : h # p /\ h \in Procs
        BY <2>6, ProcKinds
      <3>3. QED
        BY <2>1, <3>1, <3>2
    <2>7. ASSUME \/ UNCHANGED vars \/ CreateUser
                 \/ \E h \in Tabs : AccessExpires(h)
                 \/ \E b \in Bans : BanExpires(b)
                 \/ \E t \in Tokens : RefreshExpires(t)
          PROVE  FALSE
      BY <2>2, <2>7, <2>1 DEF vars, CreateUser, AccessExpires, BanExpires, RefreshExpires
    <2>8. QED
      BY <1>1, <2>3, <2>4, <2>5, <2>6, <2>7, ProcKinds DEF Next
  <1>2. AccountInv /\ [Next]_vars => [Seals]_vars
    BY <1>1
  <1>3. QED
    BY <1>2, AccountInvariant, PTL DEF Spec, TeardownSeals

(* A restriction, suspension or ban that runs, with no call under way that *)
(* is about to lift it, ends by nothing but an admin who restores the      *)
(* user, the end of the ban or the deletion of the account.                *)
THEOREM PenaltyCorrect == Spec => PenaltyHolds
  <1> DEFINE Holds ==
                Held /\ ~Held' =>
                  \/ \E a \in Admins : Lifting(a)'
                  \/ \E b \in Bans : bans[b] = "timed" /\ bans'[b] = "expired"
                  \/ status' = "deactivated"
      Lifts == {"deactivate", "activate", "lift", "lift_read", "onboard"}
  <1>1. ASSUME AccountInv, [Next]_vars, Held, ~Held',
               ~ \E a \in Admins : pc'[a] \in Lifts,
               ~ \E b \in Bans : bans[b] = "timed" /\ bans'[b] = "expired",
               status' # "deactivated"
        PROVE  FALSE
    <2>1. /\ status \in {"restricted", "suspended", "banned"}
          /\ \E b \in Bans : bans[b] \in {"timed", "endless"}
          /\ \A b \in Bans : bans[b] # "expired"
          /\ \A p \in Procs : pc[p] \notin Lifts
      BY <1>1 DEF Held, Lifting
    <2>2. ASSUME status' \in {"restricted", "suspended", "banned"},
                 \E b \in Bans : bans'[b] \in {"timed", "endless"},
                 \A b \in Bans : bans'[b] # "expired",
                 \A p \in Procs : pc'[p] \notin Lifts
          PROVE  FALSE
      BY <1>1, <2>2 DEF Held, Lifting
    <2>3. ASSUME NEW h \in Tabs, TabCall(h)
          PROVE  FALSE
      <3>1. /\ UNCHANGED bans /\ status' = status
            /\ pc'[h] \in {"issue", "find", "logout", "onboard", "delete_revoke"}
            /\ pc'[h] # "onboard"
            /\ \A q \in Procs : q # h => pc'[q] = pc[q]
        BY <1>1, <2>1, <2>3, TabCallMoves
      <3>2. \A p \in Procs : pc'[p] \notin Lifts
        BY <2>1, <3>1
      <3>3. QED
        BY <2>1, <2>2, <3>1, <3>2
    <2>4. ASSUME NEW h \in Tabs, TabStep(h)
          PROVE  FALSE
      <3>1. /\ UNCHANGED bans
            /\ status' = status \/ pc[h] = "onboard"
            /\ Rotates(pc[h], job[h], pc'[h], job'[h])
            /\ \A q \in Procs : q # h => pc'[q] = pc[q]
        BY <1>1, <2>4, TabStepMoves
      <3>2. pc'[h] \notin Lifts
        BY <3>1 DEF Rotates
      <3>3. \A p \in Procs : pc'[p] \notin Lifts
        BY <2>1, <3>1, <3>2
      <3>4. status' = status
        BY <2>1, <3>1, ProcKinds
      <3>5. QED
        BY <2>1, <2>2, <3>1, <3>3, <3>4
    <2>5. ASSUME NEW a \in Admins, AdminCall(a)
          PROVE  FALSE
      <3>1. /\ UNCHANGED <<status, bans>>
            /\ \A q \in Procs : q # a => pc'[q] = pc[q]
        BY <1>1, <2>5, AdminCallMoves
      <3>2. \A p \in Procs : pc'[p] \notin Lifts
        BY <1>1, <2>1, <2>5, <3>1
      <3>3. QED
        BY <2>1, <2>2, <3>1, <3>2
    <2>6. ASSUME NEW p \in Admins \cup Sweepers,
                 p \in Admins => AdminStep(p), p \in Sweepers => Sweep(p)
          PROVE  FALSE
      <3>1. p \in Procs /\ pc[p] \notin Lifts
        BY <2>1, ProcKinds
      <3>2. \A q \in Procs : q # p => pc'[q] = pc[q]
        BY <1>1, <2>6, OfficeMoves
      <3>3. CASE /\ pc[p] = "apply" /\ pc'[p] \in {"teardown", "idle"}
                 /\ status' \in Penalties
                 /\ \E b \in Bans, k \in {"timed", "endless"} :
                       bans' = [c \in Bans |-> IF c = b THEN k
                                               ELSE IF c \in job[p].seen THEN "none"
                                               ELSE bans[c]]
        <4>1. /\ \E b \in Bans : bans'[b] \in {"timed", "endless"}
              /\ \A b \in Bans : bans'[b] # "expired"
          BY <2>1, <3>3
        <4>2. status' \in {"restricted", "suspended", "banned"}
          BY <3>3
        <4>3. \A q \in Procs : pc'[q] \notin Lifts
          BY <2>1, <3>2, <3>3
        <4>4. QED
          BY <2>2, <4>1, <4>2, <4>3
      <3>4. CASE /\ pc[p] = "teardown" /\ pc'[p] = "idle"
                 /\ UNCHANGED <<status, bans>>
        <4>1. \A q \in Procs : pc'[q] \notin Lifts
          BY <2>1, <3>2, <3>4
        <4>2. QED
          BY <2>1, <2>2, <3>4, <4>1
      <3>5. QED
        BY <1>1, <2>1, <2>6, <3>1, <3>3, <3>4, OfficeMoves
    <2>7. ASSUME NEW b \in Bans, BanExpires(b)
          PROVE  FALSE
      BY <1>1, <2>7 DEF BanExpires, AccountInv, Data
    <2>8. ASSUME \/ UNCHANGED vars
                 \/ \E h \in Tabs : AccessExpires(h)
                 \/ \E t \in Tokens : RefreshExpires(t)
          PROVE  FALSE
      <3>1. UNCHANGED <<pc, status, bans>>
        BY <2>8 DEF vars, account, AccessExpires, RefreshExpires
      <3>2. QED
        BY <2>1, <2>2, <3>1
    <2>9. CASE CreateUser
      BY <2>1, <2>9 DEF CreateUser
    <2>10. QED
      BY <1>1, <2>3, <2>4, <2>5, <2>6, <2>7, <2>8, <2>9, ProcKinds DEF Next
  <1>2. (\E a \in Admins : Lifting(a)') <=> \E a \in Admins : pc'[a] \in Lifts
    BY DEF Lifting
  <1>3. AccountInv /\ [Next]_vars => [Holds]_vars
    BY <1>1, <1>2
  <1>4. QED
    BY <1>3, AccountInvariant, PTL DEF Spec, PenaltyHolds


-----------------------------------------------------------------------------
(* The browser.  A step that no tab takes leaves it alone. *)
LEMMA ElsewhereCalm ==
    ASSUME CalmInv, calm, ~RevokedElsewhere, UNCHANGED stored, live' \subseteq live,
           \A h \in Tabs : pc'[h] = pc[h] /\ job'[h] = job[h]
    PROVE  /\ StoredIsLive'
           /\ \A h \in Tabs : CalmJob(pc'[h], job'[h], stored', live')
  <1>1. live' = live
    BY DEF RevokedElsewhere
  <1>2. QED
    BY <1>1 DEF CalmInv, StoredIsLive

LEMMA CalmStep ==
    ASSUME AccountInv, CalmInv, CalmNext
    PROVE  CalmInv'
  <1>1. SUFFICES ASSUME calm, ~Overlap', ~LostAnswer, ~RevokedElsewhere
                 PROVE  /\ StoredIsLive'
                        /\ \A h \in Tabs : CalmJob(pc'[h], job'[h], stored', live')
    BY DEF CalmNext, CalmInv
  <1>2. /\ StoredIsLive /\ \A h \in Tabs : CalmJob(pc[h], job[h], stored, live)
        /\ \A g, h \in Tabs : g # h => pc[g] = "idle" \/ pc[h] = "idle"
        /\ \A g, h \in Tabs : g # h => pc'[g] = "idle" \/ pc'[h] = "idle"
    BY <1>1 DEF CalmInv, Overlap
  <1>3. ASSUME NEW h \in Tabs, TabCall(h)
        PROVE  /\ StoredIsLive'
               /\ \A g \in Tabs : CalmJob(pc'[g], job'[g], stored', live')
    <2>1. /\ pc[h] = "idle" /\ UNCHANGED <<live, stored>>
          /\ \A q \in Tabs : q # h => pc'[q] = pc[q] /\ job'[q] = job[q]
          /\ pc'[h] \in {"issue", "find", "logout", "onboard", "delete_revoke"}
          /\ pc'[h] = "find" => job'[h].old = stored /\ stored # None
      BY <1>3, TabCallMoves, ProcKinds
    <2>2. \A g \in Tabs : pc[g] = "idle"
      BY <1>2, <2>1
    <2>3. stored = None \/ stored \in live
      BY <1>2, <2>2 DEF StoredIsLive
    <2>4. CalmJob(pc'[h], job'[h], stored', live')
      BY <2>1, <2>3 DEF CalmJob
    <2>5. \A g \in Tabs \ {h} : CalmJob(pc'[g], job'[g], stored', live')
      BY <1>2, <2>1
    <2>6. StoredIsLive'
      BY <2>1 DEF StoredIsLive
    <2>7. QED
      BY <2>4, <2>5, <2>6
  <1>4. ASSUME NEW h \in Tabs, TabStep(h)
        PROVE  /\ StoredIsLive'
               /\ \A g \in Tabs : CalmJob(pc'[g], job'[g], stored', live')
    <2>1. /\ Rotates(pc[h], job[h], pc'[h], job'[h])
          /\ \A q \in Tabs : q # h => pc'[q] = pc[q] /\ job'[q] = job[q]
      BY <1>4, TabStepMoves, ProcKinds
    <2>2. \A g \in Tabs \ {h} : pc[g] = "idle"
      BY <1>2, <2>1 DEF Rotates
    <2>3. \A g \in Tabs \ {h} : CalmJob(pc'[g], job'[g], stored', live')
      BY <2>1, <2>2 DEF CalmJob
    <2>4. CalmJob(pc[h], job[h], stored, live)
      BY <1>2
    <2>5. Fresh # {} => NewToken # job[h].old
      BY NewTokenType, ProcKinds
    <2>6. pc[h] = "check" => stored' # stored
      BY <1>1, <2>1 DEF Rotates, LostAnswer
    <2>7. /\ CalmJob(pc'[h], job'[h], stored', live')
          /\ pc'[h] = "idle" => stored' = None \/ stored' \in live'
      BY <2>1, <2>4, <2>5, <2>6 DEF Rotates, CalmJob
    <2>8. StoredIsLive'
      BY <2>7 DEF StoredIsLive
    <2>9. QED
      BY <2>3, <2>7, <2>8
  <1>5. ASSUME NEW p \in Admins \cup Sweepers,
               \/ p \in Admins /\ AdminCall(p)
               \/ (p \in Admins => AdminStep(p)) /\ (p \in Sweepers => Sweep(p))
        PROVE  /\ StoredIsLive'
               /\ \A g \in Tabs : CalmJob(pc'[g], job'[g], stored', live')
    <2>1. /\ UNCHANGED stored /\ live' \in {live, {}}
          /\ \A q \in Procs : q # p => pc'[q] = pc[q] /\ job'[q] = job[q]
      BY <1>5, AdminCallMoves, OfficeMoves
    <2>2. \A h \in Tabs : h # p /\ h \in Procs
      BY ProcKinds
    <2>3. QED
      BY <1>1, <2>1, <2>2, ElsewhereCalm
  <1>6. ASSUME \/ CreateUser
               \/ \E h \in Tabs : AccessExpires(h)
               \/ \E b \in Bans : BanExpires(b)
               \/ \E t \in Tokens : RefreshExpires(t)
        PROVE  /\ StoredIsLive'
               /\ \A g \in Tabs : CalmJob(pc'[g], job'[g], stored', live')
    <2>1. UNCHANGED <<pc, job, stored>> /\ live' \subseteq live
      BY <1>6 DEF CreateUser, AccessExpires, BanExpires, RefreshExpires, browser
    <2>2. QED
      BY <1>1, <2>1, ElsewhereCalm
  <1>7. QED
    BY <1>3, <1>4, <1>5, <1>6, ProcKinds DEF CalmNext, Next

(* As long as no two tabs call at the same time, no answer to a refresh is *)
(* lost and nobody else revokes a token, a browser at rest that is signed  *)
(* in holds a live refresh token.                                          *)
THEOREM BrowserCorrect == CalmSpec => []BrowserGoesOn
  <1>1. MCInit => AccountInv /\ CalmInv
    <2>1. ASSUME Init PROVE CalmInv
      <3>1. \A h \in Tabs : pc[h] = "idle" /\ stored = None
        BY <2>1, ProcKinds DEF Init
      <3>2. stored = None
        BY <2>1 DEF Init
      <3>3. QED
        BY <3>1, <3>2 DEF CalmInv, Overlap, StoredIsLive, CalmJob
    <2>2. QED
      BY <2>1, InitAccount DEF MCInit
  <1>2. AccountInv /\ CalmInv /\ [CalmNext]_<<vars, calm>> => AccountInv' /\ CalmInv'
    <2>1. ASSUME AccountInv, CalmInv, CalmNext PROVE AccountInv' /\ CalmInv'
      BY <2>1, CalmStep, NextKeepsAccount DEF CalmNext
    <2>2. ASSUME AccountInv, CalmInv, UNCHANGED <<vars, calm>>
          PROVE  AccountInv' /\ CalmInv'
      BY <2>2, NextKeepsAccount DEF CalmInv, Overlap, StoredIsLive, vars, browser
    <2>3. QED
      BY <2>1, <2>2
  <1>3. CalmInv => BrowserGoesOn
    BY DEF CalmInv, BrowserGoesOn
  <1>4. QED
    BY <1>1, <1>2, <1>3, PTL DEF CalmSpec
=============================================================================
