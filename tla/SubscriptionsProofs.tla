------------------------- MODULE SubscriptionsProofs -------------------------
(***************************************************************************)
(* Proofs about Subscriptions, for any users, calls, sweeps and number of  *)
(* rows.  RowsInv is what calls and sweeps know of the rows they will      *)
(* write, in a history in which no user ever has two live rows and calls   *)
(* and sweeps about a user take turns.                                     *)
(***************************************************************************)
EXTENDS MCSubscriptions, TLAPS

USE SubscriptionsAssumption DEF SubscriptionsAssumption

TypeInv == TypeOK /\ \A c \in Calls : pc[c] # "idle" => job[c].user \in Users

Orderly == OneLiveRow /\ TakeTurns

(* The rows r of a user are stored one after the other, and only the last  *)
(* may be live. *)
Ordered(r) ==
    \A i \in Index :
        /\ r[i].status # "none" => \A j \in Index : j < i => r[j].status # "none"
        /\ r[i].status = "granted" => \A j \in Index : j > i => r[j].status = "none"

(* The cached status is what the rows say. *)
Cached(r, status) ==
    /\ (\E i \in Index : r[i].status = "granted" /\ r[i].current)
          => status = "premium"
    /\ status = "premium" => \E i \in Index : r[i].status = "granted"

(* What a call at l has computed is right when it is written. *)
Computed(l, x, r) ==
    /\ l = "insert" => x.cached = "premium"
    /\ l = "cancel" => r[x.row].status = "granted" /\ x.cached = "free"
    /\ l = "patch" =>
          /\ \A j \in Index : j > x.row => r[j].status = "none"
          /\ x.cached = "premium" => r[x.row].status = "granted"
          /\ r[x.row].status = "granted" /\ (x.extend \/ r[x.row].current)
                => x.cached = "premium"

RowsInv ==
    /\ \A u \in Users : Ordered(rows[u]) /\ Cached(rows[u], cache[u])
    /\ \A c \in Calls :
          pc[c] # "idle" => Computed(pc[c], job[c], rows[job[c].user])
    /\ \A s \in Sweeps, u \in Users, i \in Index :
          <<u, i>> \in listed[s] => rows[u][i].status = "granted"

-----------------------------------------------------------------------------
LEMMA NoJobType == NoJob \in Job
  BY DEF NoJob, Job

(* The rows after a field of the row i of u has been written. *)
LEMMA StatusWritten ==
    ASSUME TypeInv, NEW u \in Users, NEW i \in Index,
           NEW x \in {"none", "granted", "cancelled", "expired"},
           rows' = [rows EXCEPT ![u][i].status = x]
    PROVE  /\ rows' \in [Users -> [Index -> Row]]
           /\ rows'[u][i].status = x /\ rows'[u][i].current = rows[u][i].current
           /\ \A v \in Users, j \in Index :
                 v # u \/ j # i => rows'[v][j] = rows[v][j]
  <1> DEFINE r == [status |-> x, current |-> rows[u][i].current]
  <1>1. rows[u][i] \in Row /\ r \in Row
    BY DEF TypeInv, TypeOK, Row
  <1>2. [rows[u][i] EXCEPT !.status = x] = r
    BY <1>1 DEF Row
  <1>3. rows' = [rows EXCEPT ![u] = [rows[u] EXCEPT ![i] = r]]
    BY <1>2
  <1>4. r.status = x /\ r.current = rows[u][i].current
    OBVIOUS
  <1> HIDE DEF r
  <1>5. /\ rows' \in [Users -> [Index -> Row]]
        /\ rows'[u][i] = r
        /\ \A v \in Users, j \in Index :
              v # u \/ j # i => rows'[v][j] = rows[v][j]
    <2> DEFINE f == [rows[u] EXCEPT ![i] = r]
    <2>1. rows \in [Users -> [Index -> Row]]
      BY DEF TypeInv, TypeOK
    <2>2. /\ f \in [Index -> Row] /\ f[i] = r
          /\ \A j \in Index : j # i => f[j] = rows[u][j]
      BY <1>1, <2>1
    <2>3. rows' = [rows EXCEPT ![u] = f]
      BY <1>3
    <2> HIDE DEF f
    <2>4. QED
      BY <2>1, <2>2, <2>3
  <1>6. QED
    BY <1>4, <1>5

LEMMA PeriodWritten ==
    ASSUME TypeInv, NEW u \in Users, NEW i \in Index,
           \E b \in BOOLEAN : rows' = [rows EXCEPT ![u][i].current = b]
    PROVE  /\ rows' \in [Users -> [Index -> Row]]
           /\ rows'[u][i].status = rows[u][i].status
           /\ \A v \in Users, j \in Index :
                 v # u \/ j # i => rows'[v][j] = rows[v][j]
  <1> PICK b \in BOOLEAN : rows' = [rows EXCEPT ![u][i].current = b]
    OBVIOUS
  <1> DEFINE r == [status |-> rows[u][i].status, current |-> b]
  <1>1. rows[u][i] \in Row /\ r \in Row
    BY DEF TypeInv, TypeOK, Row
  <1>2. [rows[u][i] EXCEPT !.current = b] = r
    BY <1>1 DEF Row
  <1>3. rows' = [rows EXCEPT ![u] = [rows[u] EXCEPT ![i] = r]]
    BY <1>2
  <1>4. r.current = b /\ r.status = rows[u][i].status
    OBVIOUS
  <1> HIDE DEF r
  <1>5. /\ rows' \in [Users -> [Index -> Row]]
        /\ rows'[u][i] = r
        /\ \A v \in Users, j \in Index :
              v # u \/ j # i => rows'[v][j] = rows[v][j]
    <2> DEFINE f == [rows[u] EXCEPT ![i] = r]
    <2>1. rows \in [Users -> [Index -> Row]]
      BY DEF TypeInv, TypeOK
    <2>2. /\ f \in [Index -> Row] /\ f[i] = r
          /\ \A j \in Index : j # i => f[j] = rows[u][j]
      BY <1>1, <2>1
    <2>3. rows' = [rows EXCEPT ![u] = f]
      BY <1>3
    <2> HIDE DEF f
    <2>4. QED
      BY <2>1, <2>2, <2>3
  <1>6. QED
    BY <1>4, <1>5

(* A row that is there stays. *)
RowsLast ==
    /\ rows' \in [Users -> [Index -> Row]]
    /\ \A u \in Users, i \in Index :
          rows[u][i].status # "none" => rows'[u][i].status # "none"

LEMMA StartKeepsTypes ==
    ASSUME TypeInv, NEW c \in Calls, NEW l \in PC \ {"idle"}, NEW u \in Users,
           NEW i \in 0..MaxRows, NEW extend \in BOOLEAN,
           NEW cached \in {"free", "premium"}, Start(c, l, u, i, extend, cached),
           l \in {"cancel", "patch"} => i \in Index /\ rows[u][i].status # "none"
    PROVE  TypeInv'
  <1> DEFINE x == [user |-> u, row |-> i, extend |-> extend, cached |-> cached]
  <1>1. x \in Job /\ x.user = u /\ x.row = i
    BY DEF Job
  <1>2. /\ pc' = [pc EXCEPT ![c] = l] /\ job' = [job EXCEPT ![c] = x]
        /\ UNCHANGED <<rows, cache, listed, fails>>
    BY DEF Start
  <1> HIDE DEF x
  <1>3. pc' \in [Calls -> PC] /\ job' \in [Calls -> Job]
    BY <1>1, <1>2 DEF TypeInv, TypeOK
  <1>4. \A d \in Calls : /\ d # c => pc'[d] = pc[d] /\ job'[d] = job[d]
                         /\ d = c => pc'[d] = l /\ job'[d] = x
    BY <1>2 DEF TypeInv, TypeOK
  <1>5. QED
    BY <1>1, <1>2, <1>3, <1>4 DEF TypeInv, TypeOK

LEMMA CommitKeepsTypes ==
    ASSUME TypeInv, NEW c \in Calls, pc[c] # "idle", Commit(c), RowsLast
    PROVE  TypeInv'
  <1>1. /\ pc' = [pc EXCEPT ![c] = "idle"] /\ job' = [job EXCEPT ![c] = NoJob]
        /\ cache' = [cache EXCEPT ![job[c].user] = job[c].cached]
        /\ UNCHANGED <<listed, fails>>
    BY DEF Commit
  <1>2. pc' \in [Calls -> PC] /\ job' \in [Calls -> Job]
    BY <1>1, NoJobType DEF TypeInv, TypeOK, PC
  <1>3. \A d \in Calls : /\ d # c => pc'[d] = pc[d] /\ job'[d] = job[d]
                         /\ d = c => pc'[d] = "idle"
    BY <1>1 DEF TypeInv, TypeOK
  <1>4. job[c].cached \in {"free", "premium"} /\ job[c].user \in Users
    BY DEF TypeInv, TypeOK, Job
  <1>5. cache' \in [Users -> {"free", "premium"}]
    BY <1>1, <1>4 DEF TypeInv, TypeOK
  <1>6. QED
    <2>1. \A d \in Calls :
             pc'[d] \in {"cancel", "patch"}
                => /\ job'[d].row \in Index
                   /\ rows'[job'[d].user][job'[d].row].status # "none"
      BY <1>3 DEF TypeInv, TypeOK, RowsLast
    <2>2. \A d \in Calls : pc'[d] # "idle" => job'[d].user \in Users
      BY <1>3 DEF TypeInv
    <2>3. QED
      BY <1>1, <1>2, <1>5, <2>1, <2>2 DEF TypeInv, TypeOK, RowsLast

LEMMA RowsKeepTypes ==
    ASSUME TypeInv, UNCHANGED <<pc, job>>, RowsLast,
           cache' \in [Users -> {"free", "premium"}],
           listed' \in [Sweeps -> SUBSET (Users \X Index)],
           fails' \in 0..MaxFails
    PROVE  TypeInv'
  BY DEF TypeInv, TypeOK, RowsLast

LEMMA SameRows == ASSUME TypeInv, UNCHANGED rows PROVE RowsLast
  BY DEF TypeInv, TypeOK, RowsLast

(* The rows of one user before and after the write of a call. *)
LEMMA CallWrites ==
    ASSUME TypeInv, NEW c \in Calls, Write(c)
    PROVE  /\ pc[c] # "idle" /\ job[c].user \in Users /\ Commit(c) /\ RowsLast
           /\ \A v \in Users, j \in Index :
                 v # job[c].user => rows'[v][j] = rows[v][j]
           /\ pc[c] = "insert" =>
                 \E i \in Index :
                    /\ Vacant(job[c].user, i)
                    /\ rows'[job[c].user][i].status = "granted"
                    /\ \A j \in Index \ {i} :
                          rows'[job[c].user][j] = rows[job[c].user][j]
           /\ pc[c] = "cancel" =>
                 /\ job[c].row \in Index
                 /\ rows'[job[c].user][job[c].row].status = "cancelled"
                 /\ \A j \in Index \ {job[c].row} :
                       rows'[job[c].user][j] = rows[job[c].user][j]
           /\ pc[c] = "patch" =>
                 /\ \A j \in Index :
                       rows'[job[c].user][j].status = rows[job[c].user][j].status
                 /\ ~job[c].extend =>
                       \A j \in Index :
                          rows'[job[c].user][j] = rows[job[c].user][j]
  <1> DEFINE u == job[c].user
             i == job[c].row
  <1>1. pc[c] # "idle" /\ u \in Users /\ Commit(c)
    BY DEF Write, InsertGranted, MarkCancelled, PatchSubscription, TypeInv
  <1>2. pc[c] \in {"cancel", "patch"} => i \in Index /\ rows[u][i].status # "none"
    BY DEF TypeInv, TypeOK
  <1>3. CASE InsertGranted(c)
    <2>1. PICK k \in Index, b \in BOOLEAN :
             /\ Vacant(u, k)
             /\ rows' = [rows EXCEPT ![u][k] = [status |-> "granted", current |-> b]]
      BY <1>3 DEF InsertGranted
    <2>2. [status |-> "granted", current |-> b] \in Row
      BY DEF Row
    <2>3. /\ rows' \in [Users -> [Index -> Row]]
          /\ rows'[u][k] = [status |-> "granted", current |-> b]
          /\ \A v \in Users, j \in Index :
                v # u \/ j # k => rows'[v][j] = rows[v][j]
      <3> DEFINE r == [status |-> "granted", current |-> b]
                 f == [rows[u] EXCEPT ![k] = r]
      <3>1. rows \in [Users -> [Index -> Row]]
        BY DEF TypeInv, TypeOK
      <3>2. rows' = [rows EXCEPT ![u] = f]
        BY <2>1
      <3> HIDE DEF r
      <3>3. /\ f \in [Index -> Row] /\ f[k] = r
            /\ \A j \in Index : j # k => f[j] = rows[u][j]
        BY <1>1, <2>2, <3>1 DEF r
      <3> HIDE DEF f
      <3>4. /\ rows' \in [Users -> [Index -> Row]]
            /\ rows'[u][k] = r
            /\ \A v \in Users, j \in Index :
                  v # u \/ j # k => rows'[v][j] = rows[v][j]
        BY <1>1, <3>1, <3>2, <3>3
      <3>5. QED
        BY <3>4 DEF r
    <2>4. rows'[u][k].status = "granted"
      BY <2>3
    <2>5. RowsLast
      BY <2>3, <2>4 DEF RowsLast
    <2>6. pc[c] = "insert"
      BY <1>3 DEF InsertGranted
    <2>7. QED
      BY <1>1, <2>1, <2>3, <2>4, <2>5, <2>6
  <1>4. CASE MarkCancelled(c)
    <2>1. pc[c] = "cancel" /\ rows' = [rows EXCEPT ![u][i].status = "cancelled"]
      BY <1>4 DEF MarkCancelled
    <2>2. /\ rows' \in [Users -> [Index -> Row]]
          /\ rows'[u][i].status = "cancelled"
          /\ \A v \in Users, j \in Index :
                v # u \/ j # i => rows'[v][j] = rows[v][j]
      BY <1>1, <1>2, <2>1, StatusWritten
    <2>3. RowsLast
      BY <2>2 DEF RowsLast
    <2>4. QED
      BY <1>1, <1>2, <2>1, <2>2, <2>3
  <1>5. CASE PatchSubscription(c)
    <2>1. pc[c] = "patch"
      BY <1>5 DEF PatchSubscription
    <2>2. CASE ~job[c].extend /\ UNCHANGED rows
      BY <1>1, <2>1, <2>2, SameRows
    <2>3. ASSUME job[c].extend,
                 \E b \in BOOLEAN : rows' = [rows EXCEPT ![u][i].current = b]
          PROVE  /\ RowsLast
                 /\ \A v \in Users, j \in Index : v # u => rows'[v][j] = rows[v][j]
                 /\ \A j \in Index : rows'[u][j].status = rows[u][j].status
      <3>1. /\ rows' \in [Users -> [Index -> Row]]
            /\ rows'[u][i].status = rows[u][i].status
            /\ \A v \in Users, j \in Index :
                  v # u \/ j # i => rows'[v][j] = rows[v][j]
        BY <1>1, <1>2, <2>1, <2>3, PeriodWritten
      <3>2. \A v \in Users, j \in Index : rows'[v][j].status = rows[v][j].status
        BY <1>1, <1>2, <2>1, <3>1
      <3>3. QED
        BY <1>1, <3>1, <3>2 DEF RowsLast
    <2>4. QED
      BY <1>1, <1>5, <2>1, <2>2, <2>3 DEF PatchSubscription
  <1>6. QED
    BY <1>3, <1>4, <1>5 DEF Write

LEMMA SweepWrites ==
    ASSUME TypeInv, NEW s \in Sweeps, NEW p \in listed[s],
           rows' = [rows EXCEPT ![p[1]][p[2]].status = "expired"]
    PROVE  /\ p[1] \in Users /\ p[2] \in Index /\ p = <<p[1], p[2]>> /\ RowsLast
           /\ rows'[p[1]][p[2]].status = "expired"
           /\ \A v \in Users, j \in Index :
                 v # p[1] \/ j # p[2] => rows'[v][j] = rows[v][j]
  <1>1. p \in Users \X Index
    BY DEF TypeInv, TypeOK
  <1>2. PICK u \in Users, i \in Index : p = <<u, i>>
    BY <1>1
  <1>3. p[1] = u /\ p[2] = i
    BY <1>2
  <1>4. rows' = [rows EXCEPT ![u][i].status = "expired"]
    BY <1>3
  <1>5. /\ rows' \in [Users -> [Index -> Row]]
        /\ rows'[u][i].status = "expired"
        /\ \A v \in Users, j \in Index :
              v # u \/ j # i => rows'[v][j] = rows[v][j]
    BY <1>4, StatusWritten
  <1>6. RowsLast
    BY <1>5 DEF RowsLast
  <1>7. QED
    BY <1>2, <1>3, <1>5, <1>6

LEMMA CallKeepsTypes ==
    ASSUME TypeInv, NEW c \in Calls, Call(c)
    PROVE  TypeInv'
  <1>1. PICK u \in Users : Grant(c, u) \/ Revoke(c, u)
                           \/ \E extend \in BOOLEAN : Change(c, u, extend)
    BY DEF Call
  <1>2. 0 \in 0..MaxRows /\ \A i \in Index : i \in 0..MaxRows
    BY DEF Index
  <1>3. \A x, y : Derive(x, y) \in {"free", "premium"}
    BY DEF Derive
  <1>4. {"insert", "cancel", "patch"} \subseteq PC \ {"idle"}
    BY DEF PC
  <1>5. CASE Grant(c, u)
    <2>1. Start(c, "insert", u, 0, FALSE, Derive("granted", TRUE))
      BY <1>5 DEF Grant
    <2>2. Derive("granted", TRUE) = "premium"
      BY DEF Derive
    <2>3. QED
      BY <1>2, <1>4, <2>1, <2>2, StartKeepsTypes
  <1>6. CASE Revoke(c, u)
    <2>1. PICK i \in Index :
             /\ Live(u, i)
             /\ Start(c, "cancel", u, i, FALSE, Derive("cancelled", rows[u][i].current))
      BY <1>6 DEF Revoke
    <2>2. Derive("cancelled", rows[u][i].current) = "free"
      BY DEF Derive
    <2>3. rows[u][i].status # "none"
      BY <2>1 DEF Live
    <2>4. QED
      BY <1>2, <1>4, <2>1, <2>2, <2>3, StartKeepsTypes
  <1>7. ASSUME NEW extend \in BOOLEAN, Change(c, u, extend)
        PROVE  TypeInv'
    <2>1. PICK i \in Index :
             /\ Latest(u, i)
             /\ Start(c, "patch", u, i, extend,
                      Derive(rows[u][i].status, extend \/ rows[u][i].current))
      BY <1>7 DEF Change
    <2>2. PICK x \in {"free", "premium"} : Start(c, "patch", u, i, extend, x)
      BY <1>3, <2>1
    <2>3. rows[u][i].status # "none"
      BY <2>1 DEF Latest
    <2>4. QED
      BY <1>2, <1>4, <2>2, <2>3, StartKeepsTypes
  <1>8. QED
    BY <1>1, <1>5, <1>6, <1>7

LEMMA NextKeepsTypes ==
    ASSUME TypeInv, [Next]_vars
    PROVE  TypeInv'
  <1>1. CASE UNCHANGED vars
    BY <1>1 DEF vars, TypeInv, TypeOK
  <1>2. ASSUME NEW c \in Calls, Write(c)
        PROVE  TypeInv'
    BY <1>2, CallWrites, CommitKeepsTypes
  <1>3. ASSUME NEW s \in Sweeps, SweepList(s) \/ SweepFails(s)
        PROVE  TypeInv'
    <2>1. UNCHANGED <<pc, job, rows, cache>> /\ RowsLast
      BY <1>3, SameRows DEF SweepList, SweepFails
    <2>2. ExpiredActive \in SUBSET (Users \X Index)
      BY DEF ExpiredActive
    <2>3. listed' \in [Sweeps -> SUBSET (Users \X Index)]
      BY <1>3, <2>2 DEF SweepList, SweepFails, TypeInv, TypeOK
    <2>4. fails' \in 0..MaxFails
      BY <1>3 DEF SweepList, SweepFails, TypeInv, TypeOK
    <2>5. QED
      BY <2>1, <2>3, <2>4, RowsKeepTypes DEF TypeInv, TypeOK
  <1>4. ASSUME NEW s \in Sweeps, MarkExpired(s)
        PROVE  TypeInv'
    <2>1. PICK p \in listed[s] :
             /\ rows' = [rows EXCEPT ![p[1]][p[2]].status = "expired"]
             /\ cache' = [cache EXCEPT ![p[1]] =
                             Derive("expired", rows[p[1]][p[2]].current)]
             /\ listed' = [listed EXCEPT ![s] = @ \ {p}]
             /\ UNCHANGED <<pc, job, fails>>
      BY <1>4 DEF MarkExpired
    <2>2. RowsLast
      BY <2>1, SweepWrites
    <2>3. cache' \in [Users -> {"free", "premium"}]
      BY <2>1 DEF Derive, TypeInv, TypeOK
    <2>4. listed' \in [Sweeps -> SUBSET (Users \X Index)]
      BY <2>1 DEF TypeInv, TypeOK
    <2>5. QED
      BY <2>1, <2>2, <2>3, <2>4, RowsKeepTypes DEF TypeInv, TypeOK
  <1>5. ASSUME NEW u \in Users, NEW i \in Index, Lapse(u, i)
        PROVE  TypeInv'
    <2>1. /\ UNCHANGED <<pc, job, cache, listed, fails>>
          /\ rows' = [rows EXCEPT ![u][i].current = FALSE]
      BY <1>5 DEF Lapse
    <2>2. \E b \in BOOLEAN : rows' = [rows EXCEPT ![u][i].current = b]
      BY <2>1
    <2>3. /\ rows' \in [Users -> [Index -> Row]]
          /\ rows'[u][i].status = rows[u][i].status
          /\ \A v \in Users, j \in Index :
                v # u \/ j # i => rows'[v][j] = rows[v][j]
      BY <2>2, PeriodWritten
    <2>4. RowsLast
      BY <2>3 DEF RowsLast
    <2>5. QED
      BY <2>1, <2>4, RowsKeepTypes DEF TypeInv, TypeOK
  <1>6. QED
    BY <1>1, <1>2, <1>3, <1>4, <1>5, CallKeepsTypes DEF Next, Sweep

LEMMA InitTypes == Init => TypeInv
  BY NoJobType DEF Init, TypeInv, TypeOK, PC, NoRow, Row

(* Every variable has its type, and a call that will cancel or patch a row *)
(* acts upon one that exists. *)
THEOREM SubscriptionsTypeSafe == Spec => []TypeOK
  <1>1. TypeInv /\ [Next]_vars => TypeInv'
    BY NextKeepsTypes
  <1>2. TypeInv => TypeOK
    BY DEF TypeInv
  <1>3. QED
    BY <1>1, <1>2, InitTypes, PTL DEF Spec

LEMMA TypeInvariant == Spec => []TypeInv
  <1>1. TypeInv /\ [Next]_vars => TypeInv'
    BY NextKeepsTypes
  <1>2. QED
    BY <1>1, InitTypes, PTL DEF Spec


-----------------------------------------------------------------------------
(* The derived status, while calls and sweeps take turns. *)
LEMMA OneLive ==
    OneLiveRow <=> \A u \in Users, i, j \in Index :
                      rows[u][i].status = "granted" /\ rows[u][j].status = "granted"
                         => i = j
  BY DEF OneLiveRow, Live

(* A step about one user u, which may end a call about it. *)
LEMMA OneUser ==
    ASSUME TypeInv, RowsInv, NEW u \in Users,
           \A v \in Users \ {u} : rows'[v] = rows[v] /\ cache'[v] = cache[v],
           \A c \in Calls :
              \/ pc'[c] = "idle"
              \/ /\ pc'[c] = pc[c] /\ job'[c] = job[c]
                 /\ job[c].user = u => Computed(pc[c], job[c], rows'[u]),
           \A s \in Sweeps, v \in Users, i \in Index :
              <<v, i>> \in listed'[s] =>
                 <<v, i>> \in listed[s] /\ (v = u => rows'[u][i].status = "granted"),
           Ordered(rows'[u]), Cached(rows'[u], cache'[u])
    PROVE  RowsInv'
  <1>1. ASSUME NEW v \in Users
        PROVE  Ordered(rows'[v]) /\ Cached(rows'[v], cache'[v])
    <2>1. CASE v = u
      BY <2>1
    <2>2. CASE v # u
      BY <2>2 DEF RowsInv
    <2>3. QED
      BY <2>1, <2>2
  <1>2. ASSUME NEW c \in Calls, pc'[c] # "idle"
        PROVE  Computed(pc'[c], job'[c], rows'[job'[c].user])
    <2>1. /\ pc'[c] = pc[c] /\ job'[c] = job[c] /\ job[c].user \in Users
          /\ job[c].user = u => Computed(pc[c], job[c], rows'[u])
          /\ Computed(pc[c], job[c], rows[job[c].user])
      BY <1>2 DEF RowsInv, TypeInv
    <2>2. CASE job[c].user = u
      BY <2>1, <2>2
    <2>3. CASE job[c].user # u
      <3>1. rows'[job[c].user] = rows[job[c].user]
        BY <2>1, <2>3
      <3>2. QED
        BY <2>1, <3>1
    <2>4. QED
      BY <2>2, <2>3
  <1>3. ASSUME NEW s \in Sweeps, NEW v \in Users, NEW i \in Index,
               <<v, i>> \in listed'[s]
        PROVE  rows'[v][i].status = "granted"
    <2>1. CASE v = u
      BY <1>3, <2>1
    <2>2. CASE v # u
      <3>1. rows'[v] = rows[v] /\ <<v, i>> \in listed[s]
        BY <1>3, <2>2
      <3>2. QED
        BY <3>1 DEF RowsInv
    <2>3. QED
      BY <2>1, <2>2
  <1>4. QED
    BY <1>1, <1>2, <1>3 DEF RowsInv

LEMMA CallStep ==
    ASSUME TypeInv, RowsInv, NEW c \in Calls, Call(c)
    PROVE  RowsInv'
  <1>1. ASSUME NEW l \in {"insert", "cancel", "patch"}, NEW u \in Users,
               NEW i \in 0..MaxRows, NEW extend \in BOOLEAN,
               NEW x \in {"free", "premium"}, Start(c, l, u, i, extend, x),
               Computed(l, [user |-> u, row |-> i, extend |-> extend, cached |-> x],
                        rows[u])
        PROVE  RowsInv'
    <2> DEFINE j == [user |-> u, row |-> i, extend |-> extend, cached |-> x]
    <2>1. /\ pc' = [pc EXCEPT ![c] = l] /\ job' = [job EXCEPT ![c] = j]
          /\ UNCHANGED <<rows, cache, listed>>
      BY <1>1 DEF Start
    <2>2. j.user = u /\ Computed(l, j, rows[u])
      BY <1>1
    <2> HIDE DEF j
    <2>3. \A d \in Calls : /\ d # c => pc'[d] = pc[d] /\ job'[d] = job[d]
                           /\ d = c => pc'[d] = l /\ job'[d] = j
      BY <2>1 DEF TypeInv, TypeOK
    <2>4. \A d \in Calls :
             pc'[d] # "idle" => Computed(pc'[d], job'[d], rows[job'[d].user])
      BY <2>2, <2>3 DEF RowsInv
    <2>5. QED
      BY <2>1, <2>4 DEF RowsInv
  <1>2. PICK u \in Users : Grant(c, u) \/ Revoke(c, u)
                           \/ \E extend \in BOOLEAN : Change(c, u, extend)
    BY DEF Call
  <1>3. 0 \in 0..MaxRows /\ \A i \in Index : i \in 0..MaxRows
    BY DEF Index
  <1>4. CASE Grant(c, u)
    <2>1. Start(c, "insert", u, 0, FALSE, "premium")
      BY <1>4 DEF Grant, Derive
    <2>2. Computed("insert", [user |-> u, row |-> 0, extend |-> FALSE,
                              cached |-> "premium"], rows[u])
      BY DEF Computed
    <2>3. QED
      BY <1>1, <1>3, <2>1, <2>2
  <1>5. CASE Revoke(c, u)
    <2>1. PICK i \in Index :
             /\ Live(u, i)
             /\ Start(c, "cancel", u, i, FALSE, Derive("cancelled", rows[u][i].current))
      BY <1>5 DEF Revoke
    <2>2. Start(c, "cancel", u, i, FALSE, "free")
      BY <2>1 DEF Derive
    <2>3. Computed("cancel", [user |-> u, row |-> i, extend |-> FALSE,
                              cached |-> "free"], rows[u])
      BY <2>1 DEF Computed, Live
    <2>4. QED
      BY <1>1, <1>3, <2>2, <2>3
  <1>6. ASSUME NEW extend \in BOOLEAN, Change(c, u, extend)
        PROVE  RowsInv'
    <2>1. PICK i \in Index :
             /\ Latest(u, i)
             /\ Start(c, "patch", u, i, extend,
                      Derive(rows[u][i].status, extend \/ rows[u][i].current))
      BY <1>6 DEF Change
    <2>2. PICK x \in {"free", "premium"} :
             /\ x = Derive(rows[u][i].status, extend \/ rows[u][i].current)
             /\ Start(c, "patch", u, i, extend, x)
      BY <2>1 DEF Derive
    <2>3. /\ \A j \in Index : j > i => rows[u][j].status = "none"
          /\ x = "premium" => rows[u][i].status = "granted"
          /\ rows[u][i].status = "granted" /\ (extend \/ rows[u][i].current)
                => x = "premium"
      BY <2>1, <2>2 DEF Derive, Latest
    <2>4. Computed("patch", [user |-> u, row |-> i, extend |-> extend,
                             cached |-> x], rows[u])
      BY <2>3 DEF Computed
    <2>5. QED
      BY <1>1, <1>3, <2>2, <2>4
  <1>7. QED
    BY <1>2, <1>4, <1>5, <1>6

LEMMA WriteStep ==
    ASSUME TypeInv, RowsInv, Orderly, OneLiveRow', NEW c \in Calls, Write(c)
    PROVE  RowsInv'
  <1>1. PICK u \in Users : u = job[c].user
    BY CallWrites
  <1>2. PICK r \in [Index -> Row] : r = rows'[u]
    BY CallWrites DEF RowsLast
  <1>3. PICK x \in {"free", "premium"} : x = job[c].cached
    BY DEF TypeInv, TypeOK, Job
  <1>4. /\ pc[c] # "idle" /\ Commit(c) /\ rows' \in [Users -> [Index -> Row]]
        /\ \A v \in Users, j \in Index : v # u => rows'[v][j] = rows[v][j]
    BY <1>1, CallWrites DEF RowsLast
  <1>5. /\ pc' = [pc EXCEPT ![c] = "idle"] /\ job' = [job EXCEPT ![c] = NoJob]
        /\ cache' = [cache EXCEPT ![u] = x] /\ UNCHANGED listed
    BY <1>1, <1>3, <1>4 DEF Commit
  <1>6. Ordered(rows[u]) /\ Computed(pc[c], job[c], rows[u])
    BY <1>1, <1>4 DEF RowsInv
  <1>7. \A i, j \in Index : rows[u][i].status = "granted"
                            /\ rows[u][j].status = "granted" => i = j
    BY OneLive DEF Orderly
  <1>8. Ordered(r) /\ Cached(r, x)
    <2>1. CASE pc[c] = "insert"
      <3>1. PICK i \in Index :
               /\ Vacant(u, i) /\ r[i].status = "granted"
               /\ \A j \in Index \ {i} : r[j] = rows[u][j]
        BY <1>1, <1>2, <2>1, CallWrites
      <3>2. /\ rows[u][i].status = "none"
            /\ \A j \in Index : j < i => rows[u][j].status # "none"
        BY <3>1 DEF Vacant
      <3>3. \A j \in Index : j > i => rows[u][j].status = "none"
        BY <1>6, <3>2 DEF Ordered
      <3>4. \A j \in Index : r[j].status = "granted" => j = i
        <4>1. \A v \in Users, j, k \in Index :
                 rows'[v][j].status = "granted" /\ rows'[v][k].status = "granted"
                    => j = k
          BY DEF OneLiveRow, Live
        <4>2. QED
          BY <1>2, <3>1, <4>1
      <3>5. i \in Nat /\ \A j \in Index : j \in Nat
        BY DEF Index
      <3>6. Ordered(r)
        <4>1. ASSUME NEW k \in Index, r[k].status # "none",
                     NEW j \in Index, j < k
              PROVE  r[j].status # "none"
          <5>1. k = i \/ rows[u][k].status # "none"
            BY <3>1, <4>1
          <5>2. k = i \/ k < i
            BY <3>3, <3>5, <5>1
          <5>3. j < i
            BY <3>5, <4>1, <5>2
          <5>4. QED
            BY <3>1, <3>2, <3>5, <5>3
        <4>2. ASSUME NEW j \in Index, j > i
              PROVE  r[j].status = "none"
          BY <3>1, <3>3, <3>5, <4>2
        <4>3. QED
          BY <3>4, <4>1, <4>2 DEF Ordered
      <3>7. x = "premium"
        BY <1>3, <1>6, <2>1 DEF Computed
      <3>8. QED
        BY <3>1, <3>6, <3>7 DEF Cached
    <2>2. CASE pc[c] = "cancel"
      <3>1. PICK i \in Index : i = job[c].row
        BY <2>2, CallWrites
      <3>2. r[i].status = "cancelled" /\ \A j \in Index \ {i} : r[j] = rows[u][j]
        BY <1>1, <1>2, <2>2, <3>1, CallWrites
      <3>3. rows[u][i].status = "granted" /\ x = "free"
        BY <1>3, <1>6, <2>2, <3>1 DEF Computed
      <3>4. \A j \in Index : r[j].status # "granted"
        BY <1>7, <3>2, <3>3
      <3>5. \A j \in Index : r[j].status = "none" <=> rows[u][j].status = "none"
        BY <3>2, <3>3
      <3>6. Ordered(r)
        BY <1>6, <3>4, <3>5 DEF Ordered
      <3>7. QED
        BY <3>3, <3>4, <3>6 DEF Cached
    <2>3. CASE pc[c] = "patch"
      <3>1. PICK i \in Index : i = job[c].row
        BY <2>3 DEF TypeInv, TypeOK
      <3>2. /\ \A j \in Index : r[j].status = rows[u][j].status
            /\ ~job[c].extend => \A j \in Index : r[j] = rows[u][j]
        BY <1>1, <1>2, <2>3, CallWrites
      <3>3. /\ \A j \in Index : j > i => rows[u][j].status = "none"
            /\ x = "premium" => rows[u][i].status = "granted"
            /\ rows[u][i].status = "granted"
               /\ (job[c].extend \/ rows[u][i].current) => x = "premium"
        BY <1>3, <1>6, <2>3, <3>1 DEF Computed
      <3>4. Ordered(r)
        BY <1>6, <3>2 DEF Ordered
      <3>5. ASSUME NEW j \in Index, r[j].status = "granted", r[j].current
            PROVE  x = "premium"
        <4>1. rows[u][j].status = "granted"
          BY <3>2, <3>5
        <4>2. ~ (j > i)
          BY <3>3, <4>1
        <4>3. ~ (j < i)
          <5>1. rows[u][i].status # "none"
            BY <1>1, <2>3, <3>1 DEF TypeInv, TypeOK
          <5>2. ~ (i > j)
            BY <1>6, <4>1, <5>1 DEF Ordered
          <5>3. i \in Nat /\ j \in Nat
            BY DEF Index
          <5>4. QED
            BY <5>2, <5>3
        <4>4. j = i
          BY <4>2, <4>3 DEF Index
        <4>5. CASE job[c].extend
          BY <3>3, <4>1, <4>4, <4>5
        <4>6. CASE ~job[c].extend
          BY <3>2, <3>3, <3>5, <4>1, <4>4, <4>6
        <4>7. QED
          BY <4>5, <4>6
      <3>6. x = "premium" => r[i].status = "granted"
        BY <3>2, <3>3
      <3>7. QED
        BY <3>4, <3>5, <3>6 DEF Cached
    <2>4. pc[c] \in PC
      BY DEF TypeInv, TypeOK
    <2>5. QED
      BY <1>4, <2>1, <2>2, <2>3, <2>4 DEF PC
  <1>9. \A d \in Calls : /\ d = c => pc'[d] = "idle"
                         /\ d # c => pc'[d] = pc[d] /\ job'[d] = job[d]
    BY <1>5 DEF TypeInv, TypeOK
  <1>10. \A d \in Calls : d # c /\ pc[d] # "idle" => job[d].user # u
    BY <1>1, <1>4 DEF Orderly, TakeTurns, CallOn
  <1>11. \A d \in Calls :
            \/ pc'[d] = "idle"
            \/ /\ pc'[d] = pc[d] /\ job'[d] = job[d]
               /\ job[d].user = u => Computed(pc[d], job[d], rows'[u])
    BY <1>9, <1>10
  <1>12. \A s \in Sweeps, v \in Users, i \in Index :
            <<v, i>> \in listed'[s] =>
               <<v, i>> \in listed[s] /\ (v = u => rows'[u][i].status = "granted")
    BY <1>1, <1>4, <1>5 DEF Orderly, TakeTurns, CallOn, SweepOn
  <1>13. \A v \in Users \ {u} : rows'[v] = rows[v] /\ cache'[v] = cache[v]
    <2>1. rows \in [Users -> [Index -> Row]]
      BY DEF TypeInv, TypeOK
    <2>2. \A v \in Users \ {u} : rows'[v] = rows[v]
      BY <1>4, <2>1
    <2>3. QED
      BY <1>5, <2>2 DEF TypeInv, TypeOK
  <1>14. Ordered(rows'[u]) /\ Cached(rows'[u], cache'[u])
    <2>1. cache'[u] = x
      BY <1>5 DEF TypeInv, TypeOK
    <2>2. QED
      BY <1>2, <1>8, <2>1
  <1>15. QED
    BY <1>11, <1>12, <1>13, <1>14, OneUser


LEMMA SweepStep ==
    ASSUME TypeInv, RowsInv, Orderly, NEW s \in Sweeps, MarkExpired(s)
    PROVE  RowsInv'
  <1>1. PICK p \in listed[s] :
           /\ rows' = [rows EXCEPT ![p[1]][p[2]].status = "expired"]
           /\ cache' = [cache EXCEPT ![p[1]] =
                           Derive("expired", rows[p[1]][p[2]].current)]
           /\ listed' = [listed EXCEPT ![s] = @ \ {p}]
           /\ UNCHANGED <<pc, job, fails>>
    BY DEF MarkExpired
  <1>2. PICK u \in Users, i \in Index : p = <<u, i>> /\ p[1] = u /\ p[2] = i
    BY <1>1, SweepWrites
  <1>3. /\ rows' \in [Users -> [Index -> Row]]
        /\ rows'[u][i].status = "expired"
        /\ \A v \in Users, j \in Index : v # u \/ j # i => rows'[v][j] = rows[v][j]
    <2>1. /\ rows' \in [Users -> [Index -> Row]]
          /\ rows'[p[1]][p[2]].status = "expired"
          /\ \A v \in Users, j \in Index :
                v # p[1] \/ j # p[2] => rows'[v][j] = rows[v][j]
      BY <1>1, SweepWrites DEF RowsLast
    <2>2. QED
      BY <1>2, <2>1
  <1>4. rows[u][i].status = "granted" /\ <<u, i>> \in listed[s]
    BY <1>1, <1>2 DEF RowsInv
  <1>5. \A j \in Index : rows[u][j].status = "granted" => j = i
    BY <1>4, OneLive DEF Orderly
  <1>6. cache' = [cache EXCEPT ![u] = "free"]
    BY <1>1, <1>2 DEF Derive
  <1>7. \A v \in Users \ {u} : rows'[v] = rows[v] /\ cache'[v] = cache[v]
    <2>1. rows \in [Users -> [Index -> Row]]
      BY DEF TypeInv, TypeOK
    <2>2. \A v \in Users \ {u} : rows'[v] = rows[v]
      BY <1>3, <2>1
    <2>3. QED
      BY <1>6, <2>2 DEF TypeInv, TypeOK
  <1>8. Ordered(rows'[u]) /\ Cached(rows'[u], cache'[u])
    <2>1. PICK r \in [Index -> Row] : r = rows'[u]
      BY <1>3
    <2>2. r[i].status = "expired" /\ \A j \in Index \ {i} : r[j] = rows[u][j]
      BY <1>3, <2>1
    <2>3. \A j \in Index : r[j].status # "granted"
      BY <1>5, <2>2
    <2>4. \A j \in Index : r[j].status = "none" <=> rows[u][j].status = "none"
      BY <1>4, <2>2
    <2>5. Ordered(rows[u])
      BY DEF RowsInv
    <2>6. Ordered(r)
      BY <2>3, <2>4, <2>5 DEF Ordered
    <2>7. cache'[u] = "free"
      BY <1>6 DEF TypeInv, TypeOK
    <2>8. Cached(r, "free")
      BY <2>3 DEF Cached
    <2>9. QED
      BY <2>1, <2>6, <2>7, <2>8
  <1>9. \A c \in Calls : pc[c] # "idle" => job[c].user # u
    BY <1>4 DEF Orderly, TakeTurns, CallOn, SweepOn
  <1>10. \A c \in Calls :
            \/ pc'[c] = "idle"
            \/ /\ pc'[c] = pc[c] /\ job'[c] = job[c]
               /\ job[c].user = u => Computed(pc[c], job[c], rows'[u])
    BY <1>1, <1>9
  <1>11. ASSUME NEW t \in Sweeps, NEW v \in Users, NEW j \in Index,
                <<v, j>> \in listed'[t]
         PROVE  <<v, j>> \in listed[t] /\ (v = u => rows'[u][j].status = "granted")
    <2>1. <<v, j>> \in listed[t] /\ (t = s => <<v, j>> # <<u, i>>)
      BY <1>1, <1>2, <1>11 DEF TypeInv, TypeOK
    <2>2. v # u
      <3>1. ASSUME v = u PROVE t = s
        <4>1. SweepOn(t, u) /\ SweepOn(s, u)
          BY <1>4, <2>1, <3>1 DEF SweepOn
        <4>2. QED
          BY <4>1 DEF Orderly, TakeTurns
      <3>2. ASSUME v = u PROVE j = i
        <4>1. rows[u][j].status = "granted"
          BY <2>1, <3>2 DEF RowsInv
        <4>2. QED
          BY <1>5, <4>1
      <3>3. QED
        BY <2>1, <3>1, <3>2
    <2>3. QED
      BY <2>1, <2>2
  <1>12. QED
    BY <1>7, <1>8, <1>10, <1>11, OneUser

LEMMA LapseStep ==
    ASSUME TypeInv, RowsInv, NEW u \in Users, NEW i \in Index, Lapse(u, i)
    PROVE  RowsInv'
  <1>1. /\ UNCHANGED <<pc, job, cache, listed>> /\ rows[u][i].current
        /\ \E b \in BOOLEAN : rows' = [rows EXCEPT ![u][i].current = b]
    BY DEF Lapse
  <1>2. /\ rows' \in [Users -> [Index -> Row]]
        /\ rows'[u][i].status = rows[u][i].status
        /\ \A v \in Users, j \in Index : v # u \/ j # i => rows'[v][j] = rows[v][j]
    BY <1>1, PeriodWritten
  <1>3. PICK r \in [Index -> Row] : r = rows'[u]
    BY <1>2
  <1>4. /\ \A j \in Index : r[j].status = rows[u][j].status
        /\ \A j \in Index : r[j].current => rows[u][j].current
    <2>1. r[i].status = rows[u][i].status /\ \A j \in Index \ {i} : r[j] = rows[u][j]
      BY <1>2, <1>3
    <2>2. QED
      BY <1>1, <2>1
  <1>5. \A v \in Users \ {u} : rows'[v] = rows[v] /\ cache'[v] = cache[v]
    BY <1>1, <1>2 DEF TypeInv, TypeOK
  <1>6. Ordered(rows[u]) /\ Cached(rows[u], cache[u])
    BY DEF RowsInv
  <1>7. Ordered(r) /\ Cached(r, cache[u])
    BY <1>4, <1>6 DEF Ordered, Cached
  <1>8. ASSUME NEW c \in Calls, pc[c] # "idle", job[c].user = u
        PROVE  Computed(pc[c], job[c], r)
    <2>1. Computed(pc[c], job[c], rows[u])
      BY <1>8 DEF RowsInv
    <2>2. pc[c] \in {"cancel", "patch"} => job[c].row \in Index
      BY DEF TypeInv, TypeOK
    <2>3. QED
      BY <1>4, <2>1, <2>2 DEF Computed
  <1>9. \A s \in Sweeps, v \in Users, j \in Index :
           <<v, j>> \in listed'[s] =>
              <<v, j>> \in listed[s] /\ (v = u => rows'[u][j].status = "granted")
    BY <1>1, <1>3, <1>4 DEF RowsInv
  <1>10. QED
    BY <1>1, <1>3, <1>5, <1>7, <1>8, <1>9, OneUser

LEMMA ListStep ==
    ASSUME TypeInv, RowsInv, NEW s \in Sweeps, SweepList(s) \/ SweepFails(s)
    PROVE  RowsInv'
  <1>1. UNCHANGED <<pc, job, rows, cache>>
    BY DEF SweepList, SweepFails
  <1>2. \A u \in Users, i \in Index :
           <<u, i>> \in ExpiredActive => rows[u][i].status = "granted"
    BY DEF ExpiredActive, Live
  <1>3. \A t \in Sweeps : listed'[t] \in {listed[t], {}, ExpiredActive}
    BY DEF SweepList, SweepFails, TypeInv, TypeOK
  <1>4. \A t \in Sweeps, u \in Users, i \in Index :
           <<u, i>> \in listed'[t] => rows[u][i].status = "granted"
    BY <1>2, <1>3 DEF RowsInv
  <1>5. QED
    BY <1>1, <1>4 DEF RowsInv

LEMMA NextKeepsRows ==
    ASSUME TypeInv, RowsInv, Orderly, OneLiveRow', [Next]_vars
    PROVE  RowsInv'
  <1>1. CASE UNCHANGED vars
    BY <1>1 DEF vars, RowsInv
  <1>2. QED
    BY <1>1, CallStep, WriteStep, SweepStep, LapseStep, ListStep DEF Next, Sweep

(* As long as no user has two live rows and the calls and sweeps about a   *)
(* user take turns, the status cached on the user is what the rows say: an *)
(* entitled user is premium, a premium user has a live row.                *)
THEOREM CacheCorrect == Spec => CacheFollowsRows
  <1>1. Init => RowsInv
    BY DEF Init, RowsInv, Ordered, Cached, NoRow
  <1>2. TypeInv /\ RowsInv /\ Orderly /\ Orderly' /\ [Next]_vars => RowsInv'
    BY NextKeepsRows DEF Orderly
  <1>3. RowsInv => CacheFollows
    BY DEF RowsInv, Cached, CacheFollows, Entitles, Live
  <1>4. Orderly <=> OneLiveRow /\ TakeTurns
    BY DEF Orderly
  <1>5. QED
    BY <1>1, <1>2, <1>3, <1>4, TypeInvariant, PTL DEF Spec, CacheFollowsRows

(* A row whose period runs and that is on no sweep's list is neither       *)
(* listed nor expired by the next step.                                    *)
THEOREM ExtensionsCorrect == Spec => ExtensionsHold
  <1> DEFINE Holds ==
                \A u \in Users, i \in Index :
                   /\ Entitles(u, i)
                   /\ ~Listed(u, i)
                   => /\ ~Listed(u, i)'
                      /\ rows'[u][i].status # "expired"
  <1>1. ASSUME TypeInv, [Next]_vars, NEW u \in Users, NEW i \in Index,
               Entitles(u, i), ~Listed(u, i)
        PROVE  ~Listed(u, i)' /\ rows'[u][i].status # "expired"
    <2>1. /\ rows[u][i].status = "granted" /\ rows[u][i].current
          /\ \A s \in Sweeps : <<u, i>> \notin listed[s]
      BY <1>1 DEF Entitles, Live, Listed
    <2>2. SUFFICES /\ \A s \in Sweeps : <<u, i>> \notin listed'[s]
                   /\ rows'[u][i].status # "expired"
      BY DEF Listed
    <2>3. ASSUME NEW c \in Calls, Call(c)
          PROVE  UNCHANGED <<rows, listed>>
      BY <2>3 DEF Call, Grant, Revoke, Change, Start
    <2>4. ASSUME NEW c \in Calls, Write(c)
          PROVE  UNCHANGED listed /\ rows'[u][i].status # "expired"
      <3>1. PICK v \in Users : v = job[c].user
        BY <1>1, <2>4, CallWrites
      <3>2. UNCHANGED listed
        BY <1>1, <2>4, CallWrites DEF Commit
      <3>3. CASE v # u
        BY <1>1, <2>1, <2>4, <3>1, <3>2, <3>3, CallWrites
      <3>4. CASE v = u
        <4>1. pc[c] \in {"insert", "cancel", "patch"}
          BY <1>1, <2>4, CallWrites DEF TypeInv, TypeOK, PC
        <4>2. CASE pc[c] = "insert"
          <5>1. PICK k \in Index :
                   /\ rows'[job[c].user][k].status = "granted"
                   /\ \A j \in Index \ {k} :
                         rows'[job[c].user][j] = rows[job[c].user][j]
            BY <1>1, <2>4, <4>2, CallWrites
          <5>2. QED
            BY <2>1, <3>1, <3>2, <3>4, <5>1
        <4>3. CASE pc[c] = "cancel"
          <5>1. PICK k \in Index : k = job[c].row
            BY <1>1, <2>4, <4>3, CallWrites
          <5>2. /\ rows'[job[c].user][job[c].row].status = "cancelled"
                /\ \A j \in Index \ {job[c].row} :
                      rows'[job[c].user][j] = rows[job[c].user][j]
            BY <1>1, <2>4, <4>3, CallWrites
          <5>3. QED
            BY <2>1, <3>1, <3>2, <3>4, <5>1, <5>2
        <4>4. CASE pc[c] = "patch"
          <5>1. rows'[u][i].status = rows[u][i].status
            BY <1>1, <2>4, <3>1, <3>4, <4>4, CallWrites
          <5>2. QED
            BY <2>1, <3>2, <5>1
        <4>5. QED
          BY <4>1, <4>2, <4>3, <4>4
      <3>5. QED
        BY <3>3, <3>4
    <2>5. ASSUME NEW s \in Sweeps, SweepList(s) \/ SweepFails(s)
          PROVE  rows' = rows /\ \A t \in Sweeps : <<u, i>> \notin listed'[t]
      <3>1. <<u, i>> \notin ExpiredActive
        BY <2>1 DEF ExpiredActive
      <3>2. \A t \in Sweeps : listed'[t] \in {listed[t], {}, ExpiredActive}
        BY <1>1, <2>5 DEF SweepList, SweepFails, TypeInv, TypeOK
      <3>3. QED
        BY <2>1, <2>5, <3>1, <3>2 DEF SweepList, SweepFails
    <2>6. ASSUME NEW s \in Sweeps, MarkExpired(s)
          PROVE  /\ \A t \in Sweeps : <<u, i>> \notin listed'[t]
                 /\ rows'[u][i] = rows[u][i]
      <3>1. PICK p \in listed[s] :
               /\ rows' = [rows EXCEPT ![p[1]][p[2]].status = "expired"]
               /\ listed' = [listed EXCEPT ![s] = @ \ {p}]
        BY <2>6 DEF MarkExpired
      <3>2. p # <<u, i>>
        BY <2>1, <3>1
      <3>3. p[1] # u \/ p[2] # i
        BY <1>1, <3>1, <3>2, SweepWrites
      <3>4. rows'[u][i] = rows[u][i]
        BY <1>1, <3>1, <3>3, SweepWrites
      <3>5. QED
        BY <1>1, <2>1, <3>1, <3>4 DEF TypeInv, TypeOK
    <2>7. ASSUME NEW v \in Users, NEW k \in Index, Lapse(v, k)
          PROVE  UNCHANGED listed /\ rows'[u][i].status = rows[u][i].status
      <3>1. /\ UNCHANGED listed
            /\ \E b \in BOOLEAN : rows' = [rows EXCEPT ![v][k].current = b]
        BY <2>7 DEF Lapse
      <3>2. /\ rows'[v][k].status = rows[v][k].status
            /\ (u # v \/ i # k => rows'[u][i] = rows[u][i])
        BY <1>1, <3>1, PeriodWritten
      <3>3. QED
        BY <3>1, <3>2
    <2>8. QED
      BY <1>1, <2>1, <2>3, <2>4, <2>5, <2>6, <2>7 DEF Next, Sweep, vars
  <1>2. TypeInv /\ [Next]_vars => [Holds]_vars
    BY <1>1
  <1>3. QED
    BY <1>2, TypeInvariant, PTL DEF Spec, ExtensionsHold
=============================================================================
