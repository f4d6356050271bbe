---------------------------- MODULE Subscriptions ----------------------------
(***************************************************************************)
(* Subscriptions and the status cached on the user: subscriptionService.ts *)
(* over subscriptionRepository.ts.                                         *)
(*                                                                         *)
(* Every change of a row writes users.subscription_status in the same      *)
(* transaction, but with a value that the service has computed before,     *)
(* from the one row it acts upon.  A call c \in Calls reads in one step    *)
(* and writes in another; a run s \in Sweeps of the expiry timer lists the *)
(* expired rows and then closes them one by one.  setInterval does not     *)
(* wait for the run before, so runs overlap.  Time is the set of rows      *)
(* whose period is over: a period may end at any moment.                   *)
(***************************************************************************)
EXTENDS Naturals

CONSTANTS
    Users,
    Calls,      \* administrators' requests under way
    Sweeps,     \* runs of the expiry sweep that may overlap
    MaxRows,    \* bound: rows per user
    MaxFails,   \* bound: sweeps cut short by a database error
    NoUser

ASSUME SubscriptionsAssumption ==
    /\ MaxRows \in Nat
    /\ MaxFails \in Nat
    /\ NoUser \notin Users

VARIABLES
    pc,       \* where each call is
    job,      \* what it read and computed
    rows,     \* user_subscriptions of each user, oldest first
    cache,    \* users.subscription_status
    listed,   \* rows that a sweep still has to expire
    fails     \* sweeps that have failed

vars == <<pc, job, rows, cache, listed, fails>>

Index == 1..MaxRows

(* current: current_period_end is in the future. *)
Row == [status : {"none", "granted", "cancelled", "expired"},
        current : BOOLEAN]

NoRow == [status |-> "none", current |-> FALSE]

Job == [user : Users \cup {NoUser}, row : 0..MaxRows, extend : BOOLEAN,
        cached : {"free", "premium"}]

NoJob == [user |-> NoUser, row |-> 0, extend |-> FALSE, cached |-> "free"]

PC == {"idle", "insert", "cancel", "patch"}

(* ENTITLING_STATUSES and LIVE_STATUSES; purchases, which would be         *)
(* "active", are written nowhere, and "granted" is treated alike.          *)
Live(u, i) == rows[u][i].status = "granted"

Entitles(u, i) == Live(u, i) /\ rows[u][i].current

(* getStateForUser: the row that started last. *)
Latest(u, i) ==
    /\ rows[u][i].status # "none"
    /\ \A j \in Index : j > i => rows[u][j].status = "none"

(* The place of the next row of u. *)
Vacant(u, i) ==
    /\ rows[u][i].status = "none"
    /\ \A j \in Index : j < i => rows[u][j].status # "none"

(* deriveSubscriptionStatus of one row. *)
Derive(status, current) ==
    IF status = "granted" /\ current THEN "premium" ELSE "free"

(* findExpiredActive *)
ExpiredActive ==
    {p \in Users \X Index : Live(p[1], p[2]) /\ ~rows[p[1]][p[2]].current}

Init ==
    /\ pc = [c \in Calls |-> "idle"]
    /\ job = [c \in Calls |-> NoJob]
    /\ rows = [u \in Users |-> [i \in Index |-> NoRow]]
    /\ cache = [u \in Users |-> "free"]
    /\ listed = [s \in Sweeps |-> {}]
    /\ fails = 0

Start(c, l, u, i, extend, cached) ==
    /\ pc[c] = "idle"
    /\ pc' = [pc EXCEPT ![c] = l]
    /\ job' = [job EXCEPT ![c] = [user |-> u, row |-> i, extend |-> extend,
                                  cached |-> cached]]
    /\ UNCHANGED <<rows, cache, listed, fails>>

(* The end of the transaction: the cache gets what was computed.           *)
Commit(c) ==
    /\ pc' = [pc EXCEPT ![c] = "idle"]
    /\ job' = [job EXCEPT ![c] = NoJob]
    /\ cache' = [cache EXCEPT ![job[c].user] = job[c].cached]
    /\ UNCHANGED <<listed, fails>>

-----------------------------------------------------------------------------
(* Calls of an administrator *)

(* grant: the plan is active and the date in the future. *)
Grant(c, u) == Start(c, "insert", u, 0, FALSE, Derive("granted", TRUE))

(* Variant: only the subscription is inserted, the cache is left alone. *)
InsertGranted_NoCache(c) ==
    /\ pc[c] = "insert"
    /\ \E i \in Index, current \in BOOLEAN :
          /\ Vacant(job[c].user, i)
          /\ rows' = [rows EXCEPT ![job[c].user][i] =
                         [status |-> "granted", current |-> current]]
    /\ pc' = [pc EXCEPT ![c] = "idle"]
    /\ job' = [job EXCEPT ![c] = NoJob]
    /\ UNCHANGED <<cache, listed, fails>>

(* The period may be over when the row is stored. *)
InsertGranted(c) ==
    /\ pc[c] = "insert"
    /\ \E i \in Index, current \in BOOLEAN :
          /\ Vacant(job[c].user, i)
          /\ rows' = [rows EXCEPT ![job[c].user][i] =
                         [status |-> "granted", current |-> current]]
    /\ Commit(c)

(* Variant: the status of the latest row is not looked at, nor whether     *)
(* there is one.                                                           *)
Revoke_Unchecked(c, u) ==
    \E i \in 0..MaxRows :
        /\ i # 0 => Latest(u, i)
        /\ Start(c, "cancel", u, i, FALSE, "free")

(* revoke: the latest row is live. *)
Revoke(c, u) ==
    \E i \in Index :
        /\ Latest(u, i)
        /\ Live(u, i)
        /\ Start(c, "cancel", u, i, FALSE, Derive("cancelled", rows[u][i].current))

(* By id, whatever the row is by now. *)
MarkCancelled(c) ==
    /\ pc[c] = "cancel"
    /\ rows' = [rows EXCEPT ![job[c].user][job[c].row].status = "cancelled"]
    /\ Commit(c)

(* change: of the plan alone or with a new date; the row may have any      *)
(* status.                                                                 *)
Change(c, u, extend) ==
    \E i \in Index :
        /\ Latest(u, i)
        /\ Start(c, "patch", u, i, extend,
                 Derive(rows[u][i].status, extend \/ rows[u][i].current))

(* By id; the new date may be over when it is stored. *)
PatchSubscription(c) ==
    LET u == job[c].user
        i == job[c].row
    IN
    /\ pc[c] = "patch"
    /\ \/ ~job[c].extend /\ UNCHANGED rows
       \/ /\ job[c].extend
          /\ \E current \in BOOLEAN :
                rows' = [rows EXCEPT ![u][i].current = current]
    /\ Commit(c)

-----------------------------------------------------------------------------
(* The expiry sweep *)

(* Variant: the sweep lists every live row. *)
SweepList_AllLive(s) ==
    LET live == {p \in Users \X Index : Live(p[1], p[2])} IN
    /\ listed[s] = {}
    /\ live # {}
    /\ listed' = [listed EXCEPT ![s] = live]
    /\ UNCHANGED <<pc, job, rows, cache, fails>>

SweepList(s) ==
    /\ listed[s] = {}
    /\ ExpiredActive # {}
    /\ listed' = [listed EXCEPT ![s] = ExpiredActive]
    /\ UNCHANGED <<pc, job, rows, cache, fails>>

(* Variant: rows of the list are taken off without being closed. *)
MarkExpired_CacheOnly(s) ==
    \E p \in listed[s] :
        /\ cache' = [cache EXCEPT ![p[1]] = "free"]
        /\ listed' = [listed EXCEPT ![s] = @ \ {p}]
        /\ UNCHANGED <<pc, job, rows, fails>>

(* By id, whatever the row is by now. *)
MarkExpired(s) ==
    \E p \in listed[s] :
        /\ rows' = [rows EXCEPT ![p[1]][p[2]].status = "expired"]
        /\ cache' = [cache EXCEPT ![p[1]] =
                        Derive("expired", rows[p[1]][p[2]].current)]
        /\ listed' = [listed EXCEPT ![s] = @ \ {p}]
        /\ UNCHANGED <<pc, job, fails>>

(* An error is logged and ends the run. *)
SweepFails(s) ==
    /\ listed[s] # {}
    /\ fails < MaxFails
    /\ listed' = [listed EXCEPT ![s] = {}]
    /\ fails' = fails + 1
    /\ UNCHANGED <<pc, job, rows, cache>>

(* A period ends. *)
Lapse(u, i) ==
    /\ rows[u][i].current
    /\ rows' = [rows EXCEPT ![u][i].current = FALSE]
    /\ UNCHANGED <<pc, job, cache, listed, fails>>

-----------------------------------------------------------------------------
Call(c) ==
    \E u \in Users :
        \/ Grant(c, u) \/ Revoke(c, u)
        \/ \E extend \in BOOLEAN : Change(c, u, extend)

Write(c) == InsertGranted(c) \/ MarkCancelled(c) \/ PatchSubscription(c)

Sweep(s) == SweepList(s) \/ MarkExpired(s)

Next ==
    \/ \E c \in Calls : Call(c) \/ Write(c)
    \/ \E s \in Sweeps : Sweep(s) \/ SweepFails(s)
    \/ \E u \in Users, i \in Index : Lapse(u, i)

Spec == Init /\ [][Next]_vars

(* The timer fires for ever, and the database answers the sweep. *)
FairSpec == Spec /\ \A s \in Sweeps : WF_vars(Sweep(s))

-----------------------------------------------------------------------------
(* Properties *)

(* Every variable has its type, and calls act upon rows that exist. *)
TypeOK ==
    /\ pc \in [Calls -> PC]
    /\ job \in [Calls -> Job]
    /\ rows \in [Users -> [Index -> Row]]
    /\ cache \in [Users -> {"free", "premium"}]
    /\ listed \in [Sweeps -> SUBSET (Users \X Index)]
    /\ fails \in 0..MaxFails
    /\ \A c \in Calls :
          pc[c] \in {"cancel", "patch"}
             => job[c].row \in Index /\ rows[job[c].user][job[c].row].status # "none"

(* What the derivation from a single row relies on: a user has one live    *)
(* row at a time, and the calls and sweeps about one user take turns.      *)
OneLiveRow ==
    \A u \in Users, i, j \in Index : Live(u, i) /\ Live(u, j) => i = j

CallOn(c, u) == pc[c] # "idle" /\ job[c].user = u

SweepOn(s, u) == \E i \in Index : <<u, i>> \in listed[s]

TakeTurns ==
    \A u \in Users :
        /\ \A c, d \in Calls : CallOn(c, u) /\ CallOn(d, u) => c = d
        /\ \A s, t \in Sweeps : SweepOn(s, u) /\ SweepOn(t, u) => s = t
        /\ \A c \in Calls, s \in Sweeps : ~ (CallOn(c, u) /\ SweepOn(s, u))

(* Then the cache is what the rows say: an entitled user is premium, and   *)
(* a premium user has a live row (whose period the sweep may still have to *)
(* notice).                                                                *)
CacheFollows ==
    \A u \in Users :
        /\ (\E i \in Index : Entitles(u, i)) => cache[u] = "premium"
        /\ cache[u] = "premium" => \E i \in Index : Live(u, i)

CacheFollowsRows == [](OneLiveRow /\ TakeTurns) => []CacheFollows

(* Extending a period beats the sweep unless the row is listed already:    *)
(* from the moment no sweep has it on its list, a row is not expired while *)
(* its period runs.                                                        *)
Listed(u, i) == \E s \in Sweeps : <<u, i>> \in listed[s]

ExtensionsHold ==
    [][\A u \in Users, i \in Index :
          /\ Entitles(u, i)
          /\ ~Listed(u, i)
          => /\ ~Listed(u, i)'
             /\ rows'[u][i].status # "expired"]_vars

(* A row whose period is over does not stay live, in spite of overlapping  *)
(* and failing runs.                                                       *)
LapsedRowsEnd ==
    \A u \in Users, i \in Index :
        (Live(u, i) /\ ~rows[u][i].current)
            ~> ~ (Live(u, i) /\ ~rows[u][i].current)

=============================================================================
