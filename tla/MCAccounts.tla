----------------------------- MODULE MCAccounts -----------------------------
(***************************************************************************)
(* Instances of Accounts for TLC.  To keep the instance small, a pass of   *)
(* the sweeper meets the calls of admins, time and the calls of one tab,   *)
(* not of two at the same time, and passes overlap only while no tab has a *)
(* call under way.                                                         *)
(***************************************************************************)
EXTENDS Accounts

(* Whether nothing has disturbed the browser so far. *)
VARIABLE calm

MCInit == Init /\ calm = TRUE

CalmNext ==
    /\ Next
    /\ calm' = (calm /\ ~Overlap' /\ ~LostAnswer /\ ~RevokedElsewhere)

CalmSpec == MCInit /\ [][CalmNext]_<<vars, calm>>

Busy(procs) == Cardinality({p \in procs : pc[p] # "idle"})

MainPass == CHOOSE p \in Sweepers : TRUE

MCNext ==
    /\ CalmNext
    /\ (Busy({MainPass}) = 1 => Busy(Tabs) <= 1)'
    /\ (Busy(Sweepers \ {MainPass}) > 0 => Busy(Tabs) = 0)'

MCSpec ==
    /\ MCInit /\ [][MCNext]_<<vars, calm>>
    /\ \A h \in Tabs : WF_vars(TabStep(h)) /\ WF_vars(AccessExpires(h))
    /\ \A a \in Admins : WF_vars(AdminStep(a))
    /\ \A p \in Sweepers : WF_vars(SweepStep(p))
    /\ WF_vars(\E p \in Sweepers : ExpiredActiveBans(p))

(* StoredIsLive after a calm history. *)
BrowserGoesOn == calm => StoredIsLive
=============================================================================
