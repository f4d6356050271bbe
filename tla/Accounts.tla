------------------------------ MODULE Accounts ------------------------------
(***************************************************************************)
(* One account: its status and bans, its refresh tokens, and the browser   *)
(* that is signed in to it.  authService.ts, tokenService.ts and the part  *)
(* of adminService.ts and profileService.ts that changes a status, with    *)
(* apiClient.ts and authStorage.ts on the other side.                      *)
(*                                                                         *)
(* The processes are the tabs of the browser, which share localStorage and *)
(* keep an access token each, the admins and the passes of the ban         *)
(* sweeper, which may overlap.  A call of a process is a sequence of       *)
(* actions, one per database statement.  A token that is not live is       *)
(* forgotten and its name used again.  Roles and the stamp deleted_at,     *)
(* which signing in does not look at, are left out.                        *)
(***************************************************************************)
EXTENDS Naturals, FiniteSets

CONSTANTS
    Tabs, Admins,
    Sweepers,    \* passes of the sweeper under way at the same time
    Tokens,      \* refresh tokens
    Bans,        \* rows of user_bans
    Penalties,   \* the statuses that admins give
    MaxBusy,     \* bound: calls of tabs and admins under way at the same time
    None

ASSUME AccountsAssumption ==
    /\ None \notin Tokens
    /\ MaxBusy \in Nat
    /\ Penalties \subseteq {"restricted", "suspended", "banned"}
    /\ Tabs \cap Admins = {} /\ Sweepers \cap (Tabs \cup Admins) = {}

VARIABLES
    pc, job,
    status,   \* users.account_status
    bans,     \* the active rows of user_bans, and whether they have ended
    live,     \* the refresh tokens that are neither revoked nor expired
    stored,   \* the refresh token in localStorage
    access    \* the tabs that hold an access token that has not expired

account == <<status, bans>>
browser == <<stored, access>>
vars == <<pc, job, account, live, browser>>

Procs == Tabs \cup Admins \cup Sweepers

Job == [old : Tokens \cup {None},     \* to be rotated
        new : Tokens \cup {None},     \* its successor
        out : Tokens \cup {None},     \* to be revoked by logout
        status : Penalties \cup {"active"},
        seen : SUBSET Bans]           \* the bans that a transaction has seen

NoJob == [old |-> None, new |-> None, out |-> None, status |-> "active",
          seen |-> {}]

PC == {"idle", "issue", "find", "create", "revoke", "check", "logout",
       "logout_revoke", "onboard", "delete_revoke", "apply", "teardown",
       "deactivate", "activate", "lift", "lift_read"}

(* BLOCKED_LOGIN_STATUSES and assertCanAuthenticate. *)
Blocked == {"banned", "suspended"}

Allowed == status \notin Blocked \cup {"none"}

ActiveBans == {b \in Bans : bans[b] # "none"}

Init ==
    /\ pc = [p \in Procs |-> "idle"]
    /\ job = [p \in Procs |-> NoJob]
    /\ status = "none"
    /\ bans = [b \in Bans |-> "none"]
    /\ live = {}
    /\ stored = None
    /\ access = {}

Goto(p, l) ==
    /\ pc' = [pc EXCEPT ![p] = l]
    /\ job' = [job EXCEPT ![p] = IF l = "idle" THEN NoJob ELSE @]

Begin(p, l, j) ==
    /\ pc[p] = "idle"
    /\ \/ p \in Sweepers
       \/ Cardinality({q \in Tabs \cup Admins : pc[q] # "idle"}) < MaxBusy
    /\ pc' = [pc EXCEPT ![p] = l]
    /\ job' = [job EXCEPT ![p] = j]

(* A new token is any one that nobody has. *)
Fresh == {t \in Tokens \ (live \cup {stored}) :
            \A p \in Procs : t \notin {job[p].old, job[p].new, job[p].out}}

NewToken == CHOOSE t \in Fresh : TRUE

(* authStorage.setTokens and authStorage.clear. *)
SetTokens(h, t) == stored' = t /\ access' = access \cup {h}

ClearTokens(h) == stored' = None /\ access' = access \ {h}

(* A refresh without an answer leaves the storage alone, but the logout    *)
(* that has asked for it clears it however it ends.                        *)
Unanswered(h) ==
    \/ job[h].out = None /\ UNCHANGED browser
    \/ job[h].out # None /\ ClearTokens(h)

-----------------------------------------------------------------------------
(* Signing in *)

(* createWithGoogle and createManualUser. *)
CreateUser ==
    /\ status = "none"
    /\ status' \in {"pending", "active"}
    /\ UNCHANGED <<pc, job, bans, live, browser>>

(* loginWithGoogle and loginWithEmail up to assertCanAuthenticate. *)
Login(h) ==
    /\ Allowed
    /\ Begin(h, "issue", NoJob)
    /\ UNCHANGED <<account, live, browser>>

(* issueRefreshToken, and the answer. *)
IssueSession(h) ==
    /\ pc[h] = "issue"
    /\ Fresh # {}
    /\ live' = live \cup {NewToken}
    /\ SetTokens(h, NewToken)
    /\ Goto(h, "idle")
    /\ UNCHANGED account

-----------------------------------------------------------------------------
(* tryRefresh of a tab, one at a time; rotateRefreshToken and refresh.     *)

(* A request with an expired access token refreshes first. *)
TryRefresh(h) ==
    /\ h \notin access
    /\ stored # None
    /\ Begin(h, "find", [NoJob EXCEPT !.old = stored])
    /\ UNCHANGED <<account, live, browser>>

(* Variant: the token is found whether or not it has been revoked. *)
FindActiveByHash_Revoked(h) ==
    /\ pc[h] = "find"
    /\ Goto(h, "create")
    /\ UNCHANGED <<account, live, browser>>

(* findActiveByHash; a refusal clears the storage, whatever it holds now.  *)
FindActiveByHash(h) ==
    /\ pc[h] = "find"
    /\ \/ job[h].old \in live /\ Goto(h, "create") /\ UNCHANGED browser
       \/ /\ job[h].old \notin live
          /\ Goto(h, "idle")
          /\ ClearTokens(h) \/ Unanswered(h)
    /\ UNCHANGED <<account, live>>

CreateSuccessor(h) ==
    /\ pc[h] = "create"
    /\ Fresh # {}
    /\ live' = live \cup {NewToken}
    /\ job' = [job EXCEPT ![h].new = NewToken]
    /\ pc' = [pc EXCEPT ![h] = "revoke"]
    /\ UNCHANGED <<account, browser>>

(* Variant: the arguments are mixed up. *)
RevokeById_Successor(h) ==
    /\ pc[h] = "revoke"
    /\ live' = live \ {job[h].new}
    /\ Goto(h, "check")
    /\ UNCHANGED <<account, browser>>

RevokeById(h) ==
    /\ pc[h] = "revoke"
    /\ live' = live \ {job[h].old}
    /\ Goto(h, "check")
    /\ UNCHANGED <<account, browser>>

(* What follows a refresh: the logout that has asked for it, or nothing. *)
Refreshed(h) ==
    Goto(h, IF job[h].out = None THEN "idle" ELSE "logout")

(* Variant: the status is not looked at again. *)
RecheckStatus_Skipped(h) ==
    /\ pc[h] = "check"
    /\ SetTokens(h, job[h].new)
    /\ Refreshed(h)
    /\ UNCHANGED <<account, live>>

(* assertCanAuthenticate after the rotation; either answer may be lost. *)
RecheckStatus(h) ==
    /\ pc[h] = "check"
    /\ \/ Allowed /\ SetTokens(h, job[h].new) /\ Refreshed(h)
       \/ ~Allowed /\ ClearTokens(h) /\ Goto(h, "idle")
       \/ Unanswered(h) /\ Goto(h, "idle")
    /\ UNCHANGED <<account, live>>

-----------------------------------------------------------------------------
(* logout of the client, which reads the token first and then may refresh. *)
Logout(h) ==
    /\ stored # None
    /\ \/ h \in access /\ Begin(h, "logout", [NoJob EXCEPT !.out = stored])
       \/ h \notin access /\ Begin(h, "find", [NoJob EXCEPT !.old = stored,
                                                            !.out = stored])
    /\ UNCHANGED <<account, live, browser>>

(* revokeRefreshToken looks for the token. *)
LogoutFind(h) ==
    /\ pc[h] = "logout"
    /\ \/ job[h].out \in live /\ Goto(h, "logout_revoke") /\ UNCHANGED browser
       \/ job[h].out \notin live /\ Goto(h, "idle") /\ ClearTokens(h)
    /\ UNCHANGED <<account, live>>

LogoutRevoke(h) ==
    /\ pc[h] = "logout_revoke"
    /\ live' = live \ {job[h].out}
    /\ Goto(h, "idle")
    /\ ClearTokens(h)
    /\ UNCHANGED account

-----------------------------------------------------------------------------
(* The user changes the status *)

(* completeProfile checks the status first and writes it last. *)
CompleteProfile(h) ==
    /\ h \in access
    /\ status = "pending"
    /\ Begin(h, "onboard", NoJob)
    /\ UNCHANGED <<account, live, browser>>

Onboard(h) ==
    /\ pc[h] = "onboard"
    /\ status' = "active"
    /\ Goto(h, "idle")
    /\ UNCHANGED <<bans, live, browser>>

(* deleteAccount: softDelete, then revokeAllForUser. *)
DeleteAccount(h) ==
    /\ h \in access
    /\ Begin(h, "delete_revoke", NoJob)
    /\ status' = "deactivated"
    /\ UNCHANGED <<bans, live, browser>>

DeleteRevoke(h) ==
    /\ pc[h] = "delete_revoke"
    /\ live' = {}
    /\ Goto(h, "idle")
    /\ ClearTokens(h)
    /\ UNCHANGED account

-----------------------------------------------------------------------------
(* Admins *)

(* setUserStatus and applyAction: the transaction looks for active bans.   *)
Punish(a, s) ==
    /\ status # "none"
    /\ Begin(a, "apply", [NoJob EXCEPT !.status = s, !.seen = ActiveBans])
    /\ UNCHANGED <<account, live, browser>>

(* Only a suspension or a restriction may have an end. *)
ApplyAction(a) ==
    /\ pc[a] = "apply"
    /\ \E b \in Bans, k \in {"timed", "endless"} :
          /\ bans[b] = "none" \/ b \in job[a].seen
          /\ job[a].status = "banned" => k = "endless"
          /\ bans' = [c \in Bans |-> IF c = b THEN k
                                     ELSE IF c \in job[a].seen THEN "none"
                                     ELSE bans[c]]
    /\ status' = job[a].status
    /\ Goto(a, IF job[a].status \in Blocked THEN "teardown" ELSE "idle")
    /\ UNCHANGED <<live, browser>>

(* teardownSessions, also at the end of softDelete. *)
AdminDelete(a) ==
    /\ status # "none"
    /\ Begin(a, "teardown", NoJob)
    /\ UNCHANGED <<account, live, browser>>

TeardownSessions(a) ==
    /\ pc[a] = "teardown"
    /\ live' = {}
    /\ Goto(a, "idle")
    /\ UNCHANGED <<account, browser>>

(* setUserStatus "active", and resolveAppeal once it has overturned one:   *)
(* the user may have filed any number of appeals.                          *)
Restore(a) ==
    /\ status # "none"
    /\ Begin(a, "deactivate", NoJob)
    /\ UNCHANGED <<account, live, browser>>

DeactivateBans(a) ==
    /\ pc[a] = "deactivate"
    /\ bans' = [b \in Bans |-> "none"]
    /\ Goto(a, "activate")
    /\ UNCHANGED <<status, live, browser>>

(* updateStatus "active", of an admin and of the sweeper. *)
Activate(p) ==
    /\ pc[p] = "activate"
    /\ status' = "active"
    /\ Goto(p, "idle")
    /\ UNCHANGED <<bans, live, browser>>

-----------------------------------------------------------------------------
(* The ban sweeper *)

(* Variant: temporary bans are listed whether or not they have ended. *)
ExpiredActiveBans_Any(p) ==
    /\ \E b \in Bans : bans[b] \in {"timed", "expired"}
    /\ Begin(p, "lift", NoJob)
    /\ UNCHANGED <<account, live, browser>>

(* A pass that finds none does nothing. *)
ExpiredActiveBans(p) ==
    /\ \E b \in Bans : bans[b] = "expired"
    /\ Begin(p, "lift", NoJob)
    /\ UNCHANGED <<account, live, browser>>

(* Variant: the sweeper only reports. *)
LiftBans_Nothing(p) ==
    /\ pc[p] = "lift"
    /\ Goto(p, "lift_read")
    /\ UNCHANGED <<account, live, browser>>

(* deactivateBans of the user, all of them. *)
LiftBans(p) ==
    /\ pc[p] = "lift"
    /\ bans' = [b \in Bans |-> "none"]
    /\ Goto(p, "lift_read")
    /\ UNCHANGED <<status, live, browser>>

LiftRead(p) ==
    /\ pc[p] = "lift_read"
    /\ Goto(p, IF status \in {"suspended", "restricted"} THEN "activate"
               ELSE "idle")
    /\ UNCHANGED <<account, live, browser>>

(* A query of a pass fails, which ends the pass. *)
SweepFails(p) ==
    /\ pc[p] \in {"lift", "lift_read", "activate"}
    /\ Goto(p, "idle")
    /\ UNCHANGED <<account, live, browser>>

-----------------------------------------------------------------------------
(* Time *)

BanExpires(b) ==
    /\ bans[b] = "timed"
    /\ bans' = [bans EXCEPT ![b] = "expired"]
    /\ UNCHANGED <<pc, job, status, live, browser>>

(* An access token expires, or its tab is loaded again. *)
AccessExpires(h) ==
    /\ h \in access
    /\ access' = access \ {h}
    /\ UNCHANGED <<pc, job, account, live, stored>>

RefreshExpires(t) ==
    /\ t \in live
    /\ live' = live \ {t}
    /\ UNCHANGED <<pc, job, account, browser>>

-----------------------------------------------------------------------------
TabStep(h) ==
    \/ IssueSession(h) \/ FindActiveByHash(h) \/ CreateSuccessor(h)
    \/ RevokeById(h) \/ RecheckStatus(h) \/ LogoutFind(h) \/ LogoutRevoke(h)
    \/ Onboard(h) \/ DeleteRevoke(h)

TabCall(h) ==
    \/ Login(h) \/ TryRefresh(h) \/ Logout(h) \/ CompleteProfile(h)
    \/ DeleteAccount(h)

AdminStep(a) ==
    \/ ApplyAction(a) \/ TeardownSessions(a) \/ DeactivateBans(a) \/ Activate(a)

AdminCall(a) ==
    \/ \E s \in Penalties : Punish(a, s)
    \/ AdminDelete(a) \/ Restore(a)

SweepStep(p) == LiftBans(p) \/ LiftRead(p) \/ Activate(p)

Sweep(p) == ExpiredActiveBans(p) \/ SweepStep(p) \/ SweepFails(p)

Next ==
    \/ CreateUser
    \/ \E h \in Tabs : TabStep(h) \/ TabCall(h) \/ AccessExpires(h)
    \/ \E a \in Admins : AdminStep(a) \/ AdminCall(a)
    \/ \E p \in Sweepers : Sweep(p)
    \/ \E b \in Bans : BanExpires(b)
    \/ \E t \in Tokens : RefreshExpires(t)

Spec == Init /\ [][Next]_vars

(* The server answers, the sweeper's interval goes on, access tokens live  *)
(* for a limited time.  Nobody has to call anything.                       *)
FairSpec ==
    /\ Spec
    /\ \A h \in Tabs : WF_vars(TabStep(h)) /\ WF_vars(AccessExpires(h))
    /\ \A a \in Admins : WF_vars(AdminStep(a))
    /\ \A p \in Sweepers : WF_vars(SweepStep(p))
    /\ WF_vars(\E p \in Sweepers : ExpiredActiveBans(p))

-----------------------------------------------------------------------------
(* Properties *)

TypeOK ==
    /\ pc \in [Procs -> PC]
    /\ job \in [Procs -> Job]
    /\ status \in {"none", "pending", "active", "restricted", "suspended",
                   "banned", "deactivated"}
    /\ bans \in [Bans -> {"none", "timed", "expired", "endless"}]
    /\ live \subseteq Tokens
    /\ stored \in Tokens \cup {None}
    /\ access \subseteq Tabs

(* Revoked tokens mint nothing: when no token is live and no call that has *)
(* passed its check is under way, only a sign-in ends that.                *)
Minting(h) == pc[h] \in {"issue", "create"}

Over == live = {} /\ \A h \in Tabs : ~Minting(h)

TeardownSeals ==
    [][Over /\ ~Over' =>
        /\ Allowed
        /\ \E h \in Tabs : pc[h] = "idle" /\ pc'[h] = "issue"]_vars

(* A penalty holds: once no call that is about to lift it is under way, it *)
(* ends only when an admin restores the user or hears an appeal, when a    *)
(* ban has run out, or when the user deletes the account.                  *)
Lifting(p) ==
    pc[p] \in {"deactivate", "activate", "lift", "lift_read", "onboard"}

Held ==
    /\ status \in {"restricted", "suspended", "banned"}
    /\ \E b \in Bans : bans[b] \in {"timed", "endless"}
    /\ \A b \in Bans : bans[b] # "expired"
    /\ \A p \in Procs : ~Lifting(p)

PenaltyHolds ==
    [][Held /\ ~Held' =>
        \/ \E a \in Admins : Lifting(a)'
        \/ \E b \in Bans : bans[b] = "timed" /\ bans'[b] = "expired"
        \/ status' = "deactivated"]_vars

(* Who stays blocked is out in the end: no tab keeps getting access. *)
BlockedLosesAccess ==
    <>[](status \in Blocked) => <>[](access = {})

(* Every ban that has run out is deactivated, unless deactivateBans fails  *)
(* again and again.                                                        *)
LiftFails == \E p \in Sweepers : pc[p] = "lift" /\ pc'[p] = "idle"

BansLapse ==
    \/ []<><<LiftFails>>_vars
    \/ \A b \in Bans : bans[b] = "expired" ~> bans[b] # "expired"

(* The browser can go on: at rest it holds a token that is live, as long   *)
(* as no two tabs call at the same time, no answer to a refresh is lost    *)
(* and nothing but a call of a tab revokes a token.                       *)
Overlap == \E g, h \in Tabs : g # h /\ pc[g] # "idle" /\ pc[h] # "idle"

LostAnswer ==
    \E h \in Tabs : pc[h] = "check" /\ pc'[h] # "check" /\ UNCHANGED stored

RevokedElsewhere ==
    /\ live \ live' # {}
    /\ \A h \in Tabs : UNCHANGED pc[h]

StoredIsLive ==
    (\A h \in Tabs : pc[h] = "idle") /\ stored # None => stored \in live

(* Logging out revokes the refresh token that the browser holds. *)
LogoutRevokes ==
    [][\A h \in Tabs :
          pc[h] \in {"logout", "logout_revoke"} /\ pc'[h] = "idle"
             => stored \notin live']_vars
=============================================================================
