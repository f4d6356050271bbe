-------------------------- MODULE MessagingProofs --------------------------
(***************************************************************************)
(* Proofs about Messaging, for any calls, viewers, media and number of     *)
(* messages.  TypeInv says what a call holds where it is; BytesInv, whose  *)
(* bytes a confirmation under way may rely on.                             *)
(***************************************************************************)
EXTENDS MCMessaging, FiniteSetTheorems, TLAPS

USE MessagingAssumption DEF MessagingAssumption

SendingAt == {"auth_block", "media", "insert"}

Senders == {c \in Calls : pc[c] \in SendingAt}

(* What p at l knows of its job x. *)
JobOK(p, l, x) ==
    /\ l \in {"media", "attach", "activate", "purge", "mark", "notify"}
          => x.asset \in Assets
    /\ l \in {"purge", "mark"} => x.to # "sent"
    /\ p \in Sweepers =>
          /\ l \notin SendingAt \cup {"attach", "activate"}
          /\ l # "idle" => x.to # "sent"
    /\ l \in {"next", "find_orphans"} => p \in Sweepers

Control == pc \in [Procs -> PC] /\ job \in [Procs -> Job]

(* A conversation of a session is never closed by a block. *)
KindOK == kind = "anon_session" => friends /\ ~blocked

TypeInv ==
    /\ TypeOK
    /\ \A p \in Procs : JobOK(p, pc[p], job[p])
    /\ sent + Cardinality(Senders) <= MaxMessages
    /\ KindOK

(* The call or the pass that purges m is about to mark it, or has failed. *)
Marking(m) ==
    m \in halted \/ \E p \in Procs : pc[p] = "mark" /\ job[p].asset = m

(* Also a pending asset that has been purged is on its way to be marked:   *)
(* its confirmation would make it active.                                  *)
BytesInv ==
    /\ \A m \in Assets :
          bytes[m] = "purged" =>
              asset[m] # "none" /\ (~Gone(m) => Marking(m))
    /\ \A p \in Procs :
          /\ pc[p] \in {"purge", "mark"} => asset[job[p].asset] # "none"
          /\ \A m \in job[p].list : asset[m] # "none"

-----------------------------------------------------------------------------
(* How a step changes the control state. *)
Moves(p, l, x) ==
    /\ Control'
    /\ pc'[p] = l /\ job'[p] = x
    /\ \A q \in Procs : q # p => pc'[q] = pc[q] /\ job'[q] = job[q]

LEMMA NoJobType ==
    /\ NoJob \in Job /\ NoJob.asset = None /\ NoJob.msgs = {} /\ NoJob.to = "sent"
    /\ \A m \in Assets \cup {None}, t \in {"sent", "deleted", "expired"},
          s \in SUBSET Assets :
          [NoJob EXCEPT !.asset = m] \in Job
  BY DEF NoJob, Job

LEMMA ExceptMoves ==
    ASSUME Control, NEW p \in Procs, NEW l \in PC, NEW x \in Job,
           pc' = [pc EXCEPT ![p] = l], job' = [job EXCEPT ![p] = x]
    PROVE  Moves(p, l, x)
  BY DEF Moves, Control

LEMMA GotoMoves ==
    ASSUME Control, NEW p \in Procs, NEW l \in PC, Goto(p, l)
    PROVE  /\ l = "idle" => Moves(p, l, NoJob)
           /\ l # "idle" => Moves(p, l, job[p])
  <1>1. NoJob \in Job /\ job[p] \in Job
    BY NoJobType DEF Control
  <1>2. pc' = [pc EXCEPT ![p] = l]
        /\ job' = [job EXCEPT ![p] = IF l = "idle" THEN NoJob ELSE job[p]]
    BY DEF Goto, Control
  <1>3. QED
    BY <1>1, <1>2, ExceptMoves

LEMMA BeginMoves ==
    ASSUME Control, NEW p \in Procs, NEW l \in PC, NEW x \in Job, Begin(p, l, x)
    PROVE  pc[p] = "idle" /\ Moves(p, l, x)
  BY ExceptMoves DEF Begin

LEMMA TypedControl == ASSUME TypeInv PROVE Control
  BY DEF TypeInv, TypeOK, Control

(* What a step of a call or of a pass may do to its control state. *)
Advances(p) ==
    \E l \in PC \ {"activate"}, x \in Job :
        /\ Moves(p, l, x)
        /\ JobOK(p, l, x)
        /\ l \in SendingAt => pc[p] \in SendingAt \ {"insert"}
        /\ l \in {"media", "insert"} => pc[p] = "media" \/ ~blocked

LEMMA GotoAdvances ==
    ASSUME TypeInv, NEW p \in Procs, NEW l \in PC \ {"activate"}, Goto(p, l),
           l # "idle" => JobOK(p, l, job[p]),
           l \in SendingAt => pc[p] \in SendingAt \ {"insert"},
           l \in {"media", "insert"} => pc[p] = "media" \/ ~blocked
    PROVE  Advances(p)
  <1>1. NoJob \in Job /\ job[p] \in Job /\ JobOK(p, "idle", NoJob)
    BY NoJobType, TypedControl DEF Control, JobOK, SendingAt
  <1>2. CASE l = "idle"
    <2>1. Moves(p, "idle", NoJob) /\ "idle" \in PC \ {"activate"}
      BY <1>2, TypedControl, GotoMoves DEF PC
    <2>2. QED
      BY <1>1, <2>1 DEF Advances, SendingAt
  <1>3. CASE l # "idle"
    BY <1>1, <1>3, TypedControl, GotoMoves DEF Advances
  <1>4. QED
    BY <1>2, <1>3

LEMMA SendAdvances ==
    ASSUME TypeInv, NEW p \in Procs,
           AuthorizeBlock(p) \/ CheckMedia(p) \/ AddAttachment(p)
    PROVE  Advances(p)
  <1>1. job[p] \in Job /\ JobOK(p, pc[p], job[p])
    BY DEF TypeInv, TypeOK
  <1>2. {"idle", "insert", "media", "recipients"} \subseteq PC \ {"activate"}
    BY DEF PC
  <1>3. CASE AuthorizeBlock(p)
    <2>1. pc[p] = "auth_block" /\ p \in Calls
      BY <1>1, <1>3 DEF AuthorizeBlock, JobOK, SendingAt, Procs
    <2>2. CASE blocked
      <3>1. Goto(p, "idle")
        BY <1>3, <2>2 DEF AuthorizeBlock
      <3>2. QED
        BY <1>2, <3>1, GotoAdvances DEF SendingAt
    <2>3. CASE ~blocked
      <3>1. Goto(p, AfterAuthorize(job[p]))
        BY <1>3, <2>3 DEF AuthorizeBlock
      <3>2. JobOK(p, AfterAuthorize(job[p]), job[p])
        BY <1>1, <2>1 DEF JobOK, AfterAuthorize, Job, SendingAt
      <3>3. AfterAuthorize(job[p]) \in {"insert", "media"}
        BY DEF AfterAuthorize
      <3>4. QED
        BY <1>2, <2>1, <2>3, <3>1, <3>2, <3>3, GotoAdvances DEF SendingAt
    <2>4. QED
      BY <2>2, <2>3
  <1>4. CASE CheckMedia(p)
    <2>1. pc[p] = "media" /\ p \in Calls
      BY <1>1, <1>4 DEF CheckMedia, JobOK, SendingAt, Procs
    <2>2. PICK l \in {"insert", "idle"} : Goto(p, l)
      BY <1>4 DEF CheckMedia
    <2>3. JobOK(p, l, job[p])
      BY <1>1, <2>1 DEF JobOK, SendingAt
    <2>4. QED
      BY <1>2, <2>1, <2>2, <2>3, GotoAdvances DEF SendingAt
  <1>5. CASE AddAttachment(p)
    <2>1. Goto(p, "recipients") /\ p \in Calls
      BY <1>1, <1>5 DEF AddAttachment, JobOK, Procs
    <2>2. JobOK(p, "recipients", job[p])
      BY <1>1, <2>1 DEF JobOK, SendingAt
    <2>3. QED
      BY <1>2, <2>1, <2>2, GotoAdvances DEF SendingAt
  <1>6. QED
    BY <1>3, <1>4, <1>5

LEMMA InsertAdvances ==
    ASSUME TypeInv, NEW c \in Procs, InsertMessage(c), sent + 1 \in Messages
    PROVE  Advances(c)
  <1>1. job[c] \in Job /\ JobOK(c, "insert", job[c]) /\ pc[c] = "insert"
    BY DEF TypeInv, TypeOK, InsertMessage
  <1>2. c \in Calls
    BY <1>1 DEF JobOK, SendingAt, Procs
  <1> DEFINE x == [job[c] EXCEPT !.msgs = {sent + 1}]
             l == IF job[c].asset = None THEN "recipients" ELSE "attach"
  <1>3. x \in Job /\ x.asset = job[c].asset
    BY <1>1 DEF Job
  <1>4. pc' = [pc EXCEPT ![c] = l] /\ job' = [job EXCEPT ![c] = x]
    BY DEF InsertMessage
  <1>5. l \in PC \ {"activate"} /\ l \notin SendingAt
    BY DEF PC, SendingAt
  <1>6. JobOK(c, l, x)
    BY <1>1, <1>2, <1>3 DEF JobOK, Job, SendingAt
  <1>7. Moves(c, l, x)
    <2> HIDE DEF l, x
    <2>1. QED
      BY <1>3, <1>4, <1>5, TypedControl, ExceptMoves
  <1> HIDE DEF l, x
  <1>8. QED
    BY <1>3, <1>5, <1>6, <1>7 DEF Advances, SendingAt

LEMMA AfterIsRight ==
    ASSUME NEW p \in Procs, NEW x \in Job, p \in Sweepers => x.to # "sent"
    PROVE  /\ JobOK(p, "recipients", x) /\ JobOK(p, After(p), x)
           /\ p \in Calls => After(p) = "idle"
           /\ After(p) \in {"idle", "next"}
  BY DEF JobOK, After, SendingAt

LEMMA AnnouncedAdvances ==
    ASSUME TypeInv, NEW p \in Procs, pc[p] \in {"recipients", "recipients_block"},
           NEW n \in job[p].msgs, Announced(p, n)
    PROVE  Advances(p)
  <1>1. job[p] \in Job /\ JobOK(p, pc[p], job[p])
    BY DEF TypeInv, TypeOK
  <1> DEFINE x == [job[p] EXCEPT !.msgs = @ \ {n}]
             l == IF job[p].msgs \ {n} # {} THEN "recipients" ELSE After(p)
  <1>2. x \in Job /\ x.to = job[p].to
    BY <1>1 DEF Job
  <1>3. p \in Sweepers => x.to # "sent"
    BY <1>1, <1>2 DEF JobOK
  <1>4. NoJob \in Job /\ JobOK(p, "idle", NoJob) /\ "idle" \in PC
    BY NoJobType DEF JobOK, SendingAt, PC
  <1>5. CASE l = "idle" /\ p \in Calls
    <2>1. pc' = [pc EXCEPT ![p] = "idle"] /\ job' = [job EXCEPT ![p] = NoJob]
      BY <1>5 DEF Announced, After
    <2>2. Moves(p, "idle", NoJob)
      BY <1>4, <2>1, TypedControl, ExceptMoves
    <2>3. QED
      BY <1>4, <2>2 DEF Advances, SendingAt
  <1>6. CASE l # "idle" \/ p \in Sweepers
    <2>1. pc' = [pc EXCEPT ![p] = l] /\ job' = [job EXCEPT ![p] = x]
      BY <1>1, <1>6, TypedControl DEF Announced, After, Control
    <2>2. JobOK(p, l, x)
      BY <1>2, <1>3, AfterIsRight
    <2>3. l \in PC \ {"activate"} /\ l \notin SendingAt
      BY DEF After, PC, SendingAt
    <2> HIDE DEF l, x
    <2>4. Moves(p, l, x)
      BY <1>2, <2>1, <2>3, TypedControl, ExceptMoves
    <2>5. QED
      BY <1>2, <2>2, <2>3, <2>4 DEF Advances, SendingAt
  <1>7. QED
    BY <1>5, <1>6 DEF Procs

LEMMA RecipientsAdvances ==
    ASSUME TypeInv, NEW p \in Procs, Recipients(p) \/ RecipientsBlock(p)
    PROVE  Advances(p)
  <1>1. job[p] \in Job /\ JobOK(p, pc[p], job[p])
    BY DEF TypeInv, TypeOK
  <1>2. pc[p] \in {"recipients", "recipients_block"}
    BY DEF Recipients, RecipientsBlock
  <1>3. \/ \E n \in job[p].msgs : Announced(p, n)
        \/ Goto(p, "recipients_block")
    BY DEF Recipients, RecipientsBlock
  <1>4. CASE Goto(p, "recipients_block")
    <2>1. JobOK(p, "recipients_block", job[p])
      BY <1>1, <1>2 DEF JobOK, SendingAt
    <2>2. "recipients_block" \in PC \ {"activate"}
      BY DEF PC
    <2>3. QED
      BY <1>4, <2>1, <2>2, GotoAdvances DEF SendingAt
  <1>5. QED
    BY <1>2, <1>3, <1>4, AnnouncedAdvances

LEMMA MediaAdvances ==
    ASSUME TypeInv, NEW p \in Procs,
           Activate(p) \/ PurgeObject(p) \/ MarkStatus(p) \/ NotifyMediaGone(p)
    PROVE  Advances(p)
  <1>1. job[p] \in Job /\ JobOK(p, pc[p], job[p])
    BY DEF TypeInv, TypeOK
  <1>2. {"idle", "mark", "next", "notify", "recipients"} \subseteq PC \ {"activate"}
    BY DEF PC
  <1>3. CASE Activate(p)
    <2>1. Goto(p, "idle")
      BY <1>3 DEF Activate
    <2>2. QED
      BY <1>2, <2>1, GotoAdvances DEF SendingAt
  <1>4. CASE PurgeObject(p)
    <2>1. Goto(p, "mark") /\ pc[p] = "purge"
      BY <1>4 DEF PurgeObject
    <2>2. JobOK(p, "mark", job[p])
      BY <1>1, <2>1 DEF JobOK, SendingAt
    <2>3. QED
      BY <1>2, <2>1, <2>2, GotoAdvances DEF SendingAt
  <1>5. CASE MarkStatus(p)
    <2>1. PICK l \in {"next", "notify"} :
             Goto(p, l) /\ pc[p] = "mark" /\ (l = "next" => p \in Sweepers)
      BY <1>5 DEF MarkStatus
    <2>2. JobOK(p, l, job[p])
      BY <1>1, <2>1 DEF JobOK, SendingAt
    <2>3. QED
      BY <1>2, <2>1, <2>2, GotoAdvances DEF SendingAt
  <1>6. CASE NotifyMediaGone(p)
    <2>1. pc[p] = "notify" /\ Notify(p, MessagesOf(job[p].asset))
      BY <1>6 DEF NotifyMediaGone
    <2>2. PICK s \in SUBSET Messages : Notify(p, s)
      BY <2>1 DEF MessagesOf
    <2> DEFINE x == [job[p] EXCEPT !.msgs = s]
               l == IF s = {} THEN After(p) ELSE "recipients"
    <2>3. x \in Job /\ (p \in Sweepers => x.to # "sent")
      BY <1>1, <2>1 DEF Job, JobOK
    <2>4. NoJob \in Job /\ JobOK(p, "idle", NoJob)
      BY NoJobType DEF JobOK, SendingAt
    <2>5. l \in PC \ {"activate"} /\ l \notin SendingAt
      BY DEF After, PC, SendingAt
    <2>6. CASE s = {} /\ p \in Calls
      <3>1. pc' = [pc EXCEPT ![p] = "idle"] /\ job' = [job EXCEPT ![p] = NoJob]
        BY <2>2, <2>6 DEF Notify, After
      <3>2. Moves(p, "idle", NoJob)
        BY <1>2, <2>4, <3>1, TypedControl, ExceptMoves
      <3>3. QED
        BY <1>2, <2>4, <3>2 DEF Advances, SendingAt
    <2>7. CASE s # {} \/ p \in Sweepers
      <3>1. pc' = [pc EXCEPT ![p] = l] /\ job' = [job EXCEPT ![p] = x]
        BY <2>2, <2>7, TypedControl DEF Notify, Control
      <3>2. JobOK(p, l, x)
        BY <2>3, AfterIsRight
      <3> HIDE DEF l, x
      <3>3. Moves(p, l, x)
        BY <2>3, <2>5, <3>1, TypedControl, ExceptMoves
      <3>4. QED
        BY <2>3, <2>5, <3>2, <3>3 DEF Advances, SendingAt
    <2>8. QED
      BY <2>6, <2>7 DEF Procs
  <1>7. QED
    BY <1>3, <1>4, <1>5, <1>6

(* A pass between two media. *)
LEMMA SweepAdvances ==
    ASSUME TypeInv, NEW p \in Procs, SweepNext(p) \/ FindStalePending(p)
    PROVE  /\ Advances(p) /\ pc[p] \in {"next", "find_orphans"}
           /\ UNCHANGED <<context, messages, media, page, inbox, faults>>
           /\ \/ \E m \in job[p].list :
                    Moves(p, "purge", [job[p] EXCEPT !.asset = m, !.list = @ \ {m}])
              \/ Moves(p, "find_orphans", job[p])
              \/ Moves(p, "idle", NoJob)
              \/ \E s \in SUBSET {m \in Assets : asset[m] = "pending"}, x \in Job :
                    Moves(p, "next", x) /\ x.list = s
  <1>1. job[p] \in Job /\ JobOK(p, pc[p], job[p])
    BY DEF TypeInv, TypeOK
  <1>2. {"idle", "next", "purge", "find_orphans"} \subseteq PC \ {"activate"}
    BY DEF PC
  <1>3. Control
    BY TypedControl
  <1>4. /\ pc[p] \in {"next", "find_orphans"}
        /\ UNCHANGED <<context, messages, media, page, inbox, faults>>
    BY DEF SweepNext, FindStalePending
  <1>5. p \in Sweepers /\ job[p].to # "sent"
    BY <1>1, <1>4 DEF JobOK
  <1>6. CASE FindStalePending(p)
    <2> DEFINE s == {m \in old : asset[m] = "pending"}
    <2>1. s \in SUBSET {m \in Assets : asset[m] = "pending"}
      BY DEF TypeInv, TypeOK
    <2>2. /\ pc' = [pc EXCEPT ![p] = "next"]
          /\ job' = [job EXCEPT ![p] = [NoJob EXCEPT !.to = "deleted", !.list = s]]
      BY <1>6 DEF FindStalePending
    <2> HIDE DEF s
    <2> DEFINE x == [NoJob EXCEPT !.to = "deleted", !.list = s]
    <2>3. x \in Job /\ x.to = "deleted" /\ x.list = s
      BY <2>1 DEF NoJob, Job
    <2>4. JobOK(p, "next", x)
      BY <1>5, <2>3 DEF JobOK, SendingAt
    <2>5. job' = [job EXCEPT ![p] = x]
      BY <2>2
    <2> HIDE DEF x
    <2>6. Moves(p, "next", x)
      BY <1>2, <1>3, <2>2, <2>3, <2>5, ExceptMoves
    <2>7. Advances(p)
      BY <1>2, <2>3, <2>4, <2>6 DEF Advances, SendingAt
    <2>8. QED
      BY <1>4, <2>1, <2>3, <2>6, <2>7
  <1>7. ASSUME NEW m \in job[p].list,
               pc' = [pc EXCEPT ![p] = "purge"],
               job' = [job EXCEPT ![p].asset = m, ![p].list = @ \ {m}]
        PROVE  /\ Advances(p)
               /\ Moves(p, "purge", [job[p] EXCEPT !.asset = m, !.list = @ \ {m}])
    <2> DEFINE x == [job[p] EXCEPT !.asset = m, !.list = @ \ {m}]
    <2>1. x \in Job /\ x.to = job[p].to /\ x.asset \in Assets
      BY <1>1 DEF Job
    <2>2. JobOK(p, "purge", x)
      BY <1>5, <2>1 DEF JobOK, SendingAt
    <2>3. job' = [job EXCEPT ![p] = x]
      BY <1>3, <1>7 DEF Control
    <2>4. Moves(p, "purge", x)
      <3> HIDE DEF x
      <3>1. QED
        BY <1>2, <1>3, <1>7, <2>1, <2>3, ExceptMoves
    <2>5. Advances(p)
      <3> HIDE DEF x
      <3>1. QED
        BY <1>2, <1>4, <2>1, <2>2, <2>4 DEF Advances, SendingAt
    <2>6. QED
      BY <2>4, <2>5
  <1>8. ASSUME NEW l \in {"find_orphans", "idle"}, Goto(p, l)
        PROVE  /\ Advances(p)
               /\ Moves(p, "find_orphans", job[p]) \/ Moves(p, "idle", NoJob)
    <2>1. JobOK(p, l, job[p])
      BY <1>5, <1>8 DEF JobOK, SendingAt
    <2>2. Advances(p)
      BY <1>2, <1>8, <2>1, GotoAdvances DEF SendingAt
    <2>3. QED
      BY <1>2, <1>3, <1>8, <2>2, GotoMoves
  <1>9. CASE SweepNext(p)
    <2>1. \/ \E m \in job[p].list :
                /\ pc' = [pc EXCEPT ![p] = "purge"]
                /\ job' = [job EXCEPT ![p].asset = m, ![p].list = @ \ {m}]
          \/ \E l \in {"find_orphans", "idle"} : Goto(p, l)
      BY <1>9 DEF SweepNext
    <2>2. QED
      BY <1>4, <1>7, <1>8, <2>1
  <1>10. QED
    BY <1>6, <1>9

(* A failure ends the call, or the pass, where it is. *)
LEMMA FailAdvances ==
    ASSUME TypeInv, NEW p \in Procs, Fails(p)
    PROVE  /\ Advances(p) /\ Moves(p, "idle", NoJob)
           /\ UNCHANGED <<context, messages, media, page, inbox>>
           /\ pc[p] = "mark" => halted' = halted \cup {job[p].asset}
           /\ pc[p] # "mark" => halted' = halted
           /\ fails' \in 0..MaxFails
           /\ halted' \subseteq Assets
           /\ lost' \subseteq Messages \X {"sent", "deleted", "expired"}
  <1>1. job[p] \in Job /\ JobOK(p, pc[p], job[p])
    BY DEF TypeInv, TypeOK
  <1>2. Goto(p, "idle") /\ "idle" \in PC \ {"activate"}
    BY DEF Fails, PC
  <1>3. Advances(p)
    BY <1>2, GotoAdvances DEF SendingAt
  <1>4. Moves(p, "idle", NoJob)
    BY <1>2, TypedControl, GotoMoves
  <1>5. UNCHANGED <<context, messages, media, page, inbox>>
    BY DEF Fails
  <1>6. /\ pc[p] = "mark" => halted' = halted \cup {job[p].asset}
        /\ pc[p] # "mark" => halted' = halted
    BY DEF Fails
  <1>7. halted' \subseteq Assets
    BY <1>1, <1>6 DEF TypeInv, TypeOK, JobOK
  <1>8. fails' \in 0..MaxFails
    BY DEF Fails, TypeInv, TypeOK
  <1>9. lost' \subseteq Messages \X {"sent", "deleted", "expired"}
    <2>1. Unannounced(p) \subseteq Messages
      BY <1>1 DEF Unannounced, MessagesOf, Job
    <2>2. job[p].to \in {"sent", "deleted", "expired"}
      BY <1>1 DEF Job
    <2>3. lost \subseteq Messages \X {"sent", "deleted", "expired"}
      BY DEF TypeInv, TypeOK
    <2>4. lost' = lost \cup (Unannounced(p) \X {job[p].to})
      BY DEF Fails
    <2>5. QED
      BY <2>1, <2>2, <2>3, <2>4
  <1>10. QED
    BY <1>3, <1>4, <1>5, <1>6, <1>7, <1>8, <1>9

-----------------------------------------------------------------------------
(* Types.  The bound on messages counts those that are under way. *)
LEMMA SendersFinite ==
    ASSUME NEW S, S \subseteq Calls
    PROVE  IsFiniteSet(S) /\ Cardinality(S) \in Nat
  BY FS_Subset, FS_CardinalityType

LEMMA FewerSenders ==
    ASSUME TypeInv, Senders' \subseteq Senders
    PROVE  sent + Cardinality(Senders') <= MaxMessages
  <1>1. Senders \subseteq Calls
    BY DEF Senders
  <1>2. /\ IsFiniteSet(Senders) /\ Cardinality(Senders) \in Nat
        /\ Cardinality(Senders') \in Nat
    BY <1>1, SendersFinite
  <1>3. Cardinality(Senders') <= Cardinality(Senders)
    BY <1>2, FS_Subset
  <1>4. sent \in Nat /\ sent + Cardinality(Senders) <= MaxMessages
    BY DEF TypeInv, TypeOK
  <1>5. QED
    BY <1>2, <1>3, <1>4

LEMMA AdvanceLeavesSenders ==
    ASSUME TypeInv, NEW p \in Procs, Advances(p)
    PROVE  Senders' \subseteq Senders /\ Control'
           /\ \A q \in Procs : JobOK(q, pc[q], job[q])'
  <1>1. PICK l \in PC \ {"activate"}, x \in Job :
           /\ Moves(p, l, x) /\ JobOK(p, l, x)
           /\ l \in SendingAt => pc[p] \in SendingAt \ {"insert"}
    BY DEF Advances
  <1>2. \A q \in Procs : /\ q # p => pc'[q] = pc[q] /\ job'[q] = job[q]
                         /\ q = p => pc'[q] = l /\ job'[q] = x
    BY <1>1 DEF Moves
  <1>3. \A q \in Procs : JobOK(q, pc[q], job[q])
    BY DEF TypeInv
  <1>4. \A q \in Procs : JobOK(q, pc'[q], job'[q])
    BY <1>1, <1>2, <1>3
  <1>5. \A q \in Procs : JobOK(q, pc[q], job[q])'
    BY <1>4 DEF JobOK
  <1>6. Senders' \subseteq Senders
    BY <1>1, <1>2 DEF Senders, Procs
  <1>7. QED
    BY <1>1, <1>5, <1>6 DEF Moves

LEMMA RoomToInsert ==
    ASSUME TypeInv, NEW c \in Procs, InsertMessage(c)
    PROVE  c \in Calls /\ sent + 1 \in Messages
           /\ sent + 1 + Cardinality(Senders \ {c}) <= MaxMessages
  <1>1. pc[c] = "insert" /\ JobOK(c, pc[c], job[c])
    BY DEF TypeInv, InsertMessage
  <1>2. c \in Calls
    BY <1>1 DEF JobOK, SendingAt, Procs
  <1>3. c \in Senders /\ Senders \subseteq Calls
    BY <1>1, <1>2 DEF Senders, SendingAt
  <1>4. IsFiniteSet(Senders) /\ Cardinality(Senders) \in Nat
        /\ Cardinality(Senders \ {c}) \in Nat
    BY <1>3, SendersFinite
  <1>5. Cardinality(Senders \ {c}) = Cardinality(Senders) - 1
    BY <1>3, <1>4, FS_RemoveElement
  <1>6. sent \in Nat /\ sent + Cardinality(Senders) <= MaxMessages
    BY DEF TypeInv, TypeOK
  <1>7. sent + 1 + Cardinality(Senders \ {c}) <= MaxMessages /\ sent + 1 <= MaxMessages
    BY <1>4, <1>5, <1>6
  <1>8. QED
    BY <1>2, <1>6, <1>7 DEF Messages

LEMMA StepAdvances ==
    ASSUME TypeInv, NEW p \in Procs, Step(p)
    PROVE  Advances(p)
  <1>1. CASE InsertMessage(p)
    BY <1>1, RoomToInsert, InsertAdvances
  <1>2. QED
    BY <1>1, SendAdvances, RecipientsAdvances, MediaAdvances, SweepAdvances DEF Step

(* What a step writes besides its control state. *)
LEMMA StepWrites ==
    ASSUME TypeInv, NEW p \in Procs, Step(p)
    PROVE  /\ UNCHANGED <<context, temporary, signed, page, faults>>
           /\ sent' \in 0..MaxMessages
           /\ attached' \subseteq Messages \X Assets
           /\ told' \subseteq Messages
           /\ asset' \in [Assets -> {"none", "pending", "active", "expired",
                                     "deleted"}]
           /\ old' \subseteq Assets
           /\ bytes' \in [Assets -> {"none", "stored", "purged"}]
           /\ logged' \subseteq Assets
           /\ inbox' \in [Viewers -> SUBSET Messages]
  <1>1. job[p] \in Job /\ JobOK(p, pc[p], job[p])
    BY DEF TypeInv, TypeOK
  <1>2. /\ sent \in 0..MaxMessages
        /\ attached \subseteq Messages \X Assets
        /\ told \subseteq Messages
        /\ asset \in [Assets -> {"none", "pending", "active", "expired",
                                 "deleted"}]
        /\ old \subseteq Assets
        /\ bytes \in [Assets -> {"none", "stored", "purged"}]
        /\ logged \subseteq Assets
        /\ inbox \in [Viewers -> SUBSET Messages]
    BY DEF TypeInv, TypeOK
  <1>3. CASE \/ AuthorizeBlock(p) \/ CheckMedia(p) \/ NotifyMediaGone(p)
             \/ SweepNext(p) \/ FindStalePending(p)
    BY <1>2, <1>3, SweepAdvances
       DEF AuthorizeBlock, CheckMedia, NotifyMediaGone, Notify, context,
           messages, media, page
  <1>4. CASE InsertMessage(p)
    <2>1. sent + 1 \in Messages /\ sent' = sent + 1
      BY <1>4, RoomToInsert DEF InsertMessage
    <2>2. QED
      BY <1>2, <1>4, <2>1 DEF InsertMessage, Messages, context, media, page
  <1>5. CASE AddAttachment(p)
    <2>1. job[p].asset \in Assets /\ job[p].msgs \subseteq Messages
      BY <1>1, <1>5 DEF AddAttachment, JobOK, Job
    <2>2. attached' \subseteq Messages \X Assets
      BY <1>2, <1>5, <2>1 DEF AddAttachment
    <2>3. QED
      BY <1>2, <1>5, <2>2 DEF AddAttachment, context, media, page
  <1>6. CASE Recipients(p) \/ RecipientsBlock(p)
    <2>1. /\ UNCHANGED <<context, sent, attached, media, page, faults>>
          /\ \E n \in job[p].msgs :
                \/ Announce(p, n)
                \/ UNCHANGED <<told, inbox>>
      BY <1>6 DEF Recipients, RecipientsBlock
    <2>2. job[p].msgs \subseteq Messages
      BY <1>1 DEF Job
    <2>3. ASSUME NEW n \in Messages, Announce(p, n)
          PROVE  told' \subseteq Messages /\ inbox' \in [Viewers -> SUBSET Messages]
      BY <1>2, <2>3 DEF Announce
    <2>4. told' \subseteq Messages /\ inbox' \in [Viewers -> SUBSET Messages]
      BY <1>2, <2>1, <2>2, <2>3
    <2>5. QED
      BY <1>2, <2>1, <2>4 DEF media
  <1>7. CASE Activate(p)
    BY <1>2, <1>7 DEF Activate, context, messages, page
  <1>8. CASE PurgeObject(p)
    <2>1. job[p].asset \in Assets
      BY <1>1, <1>8 DEF PurgeObject, JobOK
    <2>2. QED
      BY <1>2, <1>8, <2>1 DEF PurgeObject, context, messages, page
  <1>9. CASE MarkStatus(p)
    <2>1. job[p].to \in {"expired", "deleted"}
      BY <1>1, <1>9 DEF MarkStatus, JobOK, Job
    <2>2. QED
      BY <1>2, <1>9, <2>1 DEF MarkStatus, context, messages, page
  <1>10. QED
    BY <1>3, <1>4, <1>5, <1>6, <1>7, <1>8, <1>9 DEF Step

LEMMA StepKeepsTypes ==
    ASSUME TypeInv, NEW p \in Procs, Step(p)
    PROVE  TypeInv'
  <1>1. Advances(p)
    BY StepAdvances
  <1>2. Control' /\ \A q \in Procs : JobOK(q, pc[q], job[q])'
    BY <1>1, AdvanceLeavesSenders
  <1>3. TypeOK'
    BY <1>2, StepWrites DEF TypeInv, TypeOK, Control, context, page, faults
  <1>4. KindOK'
    BY StepWrites DEF TypeInv, KindOK, context
  <1>5. (sent + Cardinality(Senders) <= MaxMessages)'
    <2>1. CASE InsertMessage(p)
      <3>1. Senders' \subseteq Senders \ {p}
        <4>1. pc[p] = "insert"
          BY <2>1 DEF InsertMessage
        <4>2. PICK l \in PC \ {"activate"}, x \in Job :
                 Moves(p, l, x) /\ (l \in SendingAt => pc[p] \in SendingAt \ {"insert"})
          BY <1>1 DEF Advances
        <4>3. pc'[p] \notin SendingAt
          BY <4>1, <4>2 DEF Moves
        <4>4. Senders' \subseteq Senders
          BY <1>1, AdvanceLeavesSenders
        <4>5. QED
          BY <4>3, <4>4 DEF Senders
      <3>2. Senders \ {p} \subseteq Calls
        BY DEF Senders
      <3>3. /\ IsFiniteSet(Senders \ {p}) /\ Cardinality(Senders \ {p}) \in Nat
            /\ Cardinality(Senders') \in Nat
        BY <3>1, <3>2, SendersFinite
      <3>4. Cardinality(Senders') <= Cardinality(Senders \ {p})
        BY <3>1, <3>3, FS_Subset
      <3>5. sent + 1 + Cardinality(Senders \ {p}) <= MaxMessages
        BY <2>1, RoomToInsert
      <3>6. sent \in Nat /\ sent' = sent + 1
        BY <2>1 DEF TypeInv, TypeOK, InsertMessage
      <3>7. QED
        BY <3>3, <3>4, <3>5, <3>6
    <2>2. CASE sent' = sent
      <3>1. sent + Cardinality(Senders') <= MaxMessages
        BY <1>1, AdvanceLeavesSenders, FewerSenders
      <3>2. QED
        BY <2>2, <3>1
    <2>3. sent' = sent \/ InsertMessage(p)
      BY DEF Step, AuthorizeBlock, CheckMedia, AddAttachment, Recipients,
             RecipientsBlock, Activate, PurgeObject, MarkStatus,
             NotifyMediaGone, Notify, SweepNext, FindStalePending, messages
    <2>4. QED
      BY <2>1, <2>2, <2>3
  <1>6. QED
    BY <1>2, <1>3, <1>4, <1>5 DEF TypeInv

-----------------------------------------------------------------------------
(* The actions that start a call or a pass. *)
LEMMA SendMoves ==
    ASSUME TypeInv, NEW c \in Calls, NEW m \in Assets \cup {None}, Send(c, m)
    PROVE  /\ UNCHANGED <<context, messages, media, page, inbox, faults>>
           /\ Room /\ Found
           /\ \E l \in SendingAt, x \in Job :
                 /\ Moves(c, l, x) /\ x.list = {}
                 /\ JobOK(c, l, x)
                 /\ kind = "friendship" => l = "auth_block"
  <1> DEFINE x == [NoJob EXCEPT !.asset = m]
             l == IF kind = "friendship" THEN "auth_block" ELSE AfterAuthorize(x)
  <1>1. x \in Job /\ x.asset = m /\ x.list = {}
    BY NoJobType DEF NoJob
  <1>2. l \in SendingAt /\ l \in PC
    BY DEF AfterAuthorize, SendingAt, PC
  <1>3. c \in Procs /\ c \in Calls
    BY DEF Procs
  <1>4. JobOK(c, l, x)
    BY <1>1, <1>3 DEF JobOK, AfterAuthorize
  <1>5. Begin(c, l, x)
    BY DEF Send
  <1>6. kind = "friendship" => l = "auth_block"
    OBVIOUS
  <1> HIDE DEF l, x
  <1>7. Moves(c, l, x)
    BY <1>1, <1>2, <1>3, <1>5, TypedControl, BeginMoves
  <1>8. QED
    BY <1>1, <1>2, <1>4, <1>6, <1>7 DEF Send

LEMMA ConfirmMoves ==
    ASSUME TypeInv, NEW c \in Calls, NEW m \in Assets, ConfirmUpload(c, m)
    PROVE  /\ UNCHANGED <<context, messages, media, page, inbox, faults>>
           /\ asset[m] = "pending" /\ pc[c] = "idle"
           /\ \E x \in Job :
                 /\ x.asset = m /\ x.list = {}
                 /\ Moves(c, "activate", x) /\ JobOK(c, "activate", x)
  <1> DEFINE x == [NoJob EXCEPT !.asset = m]
  <1>1. x \in Job /\ x.asset = m /\ x.list = {}
    BY NoJobType DEF NoJob
  <1>2. c \in Procs /\ c \in Calls /\ "activate" \in PC
    BY DEF Procs, PC
  <1>3. JobOK(c, "activate", x)
    BY <1>1, <1>2 DEF JobOK, SendingAt
  <1>4. Begin(c, "activate", x)
    BY DEF ConfirmUpload
  <1> HIDE DEF x
  <1>5. pc[c] = "idle" /\ Moves(c, "activate", x)
    BY <1>1, <1>2, <1>4, TypedControl, BeginMoves
  <1>6. QED
    BY <1>1, <1>3, <1>5 DEF ConfirmUpload

(* A deletion, and a pass of the cleanup. *)
LEMMA DeleteMoves ==
    ASSUME TypeInv, NEW c \in Calls, NEW m \in Assets, DeleteMedia(c, m)
    PROVE  /\ UNCHANGED <<context, messages, media, page, inbox, faults>>
           /\ pc[c] = "idle" /\ Advances(c) /\ asset[m] # "none"
           /\ \E x \in Job : Moves(c, "purge", x) /\ x.asset = m /\ x.list = {}
  <1> DEFINE x == [NoJob EXCEPT !.asset = m, !.to = "deleted"]
  <1>1. x \in Job /\ x.asset = m /\ x.to = "deleted" /\ x.list = {}
    BY DEF NoJob, Job
  <1>2. c \in Procs /\ c \in Calls /\ "purge" \in PC \ {"activate"}
    BY DEF Procs, PC
  <1>3. JobOK(c, "purge", x)
    BY <1>1, <1>2 DEF JobOK, SendingAt
  <1>4. Begin(c, "purge", x)
    BY DEF DeleteMedia
  <1> HIDE DEF x
  <1>5. pc[c] = "idle" /\ Moves(c, "purge", x)
    BY <1>1, <1>2, <1>4, TypedControl, BeginMoves
  <1>6. QED
    BY <1>1, <1>2, <1>3, <1>5 DEF DeleteMedia, Advances, SendingAt

LEMMA CleanupMoves ==
    ASSUME TypeInv, NEW p \in Sweepers, RunCleanup(p)
    PROVE  /\ UNCHANGED <<context, messages, media, page, inbox, faults>>
           /\ pc[p] = "idle" /\ Advances(p)
           /\ \E s \in SUBSET {m \in Assets : asset[m] = "active"}, x \in Job :
                 Moves(p, "next", x) /\ x.list = s
  <1> DEFINE s == {m \in temporary \cap old : asset[m] = "active"}
  <1>1. p \in Procs /\ "next" \in PC \ {"activate"}
    BY DEF Procs, PC
  <1>2. s \in SUBSET {m \in Assets : asset[m] = "active"}
    BY DEF TypeInv, TypeOK
  <1>3. Begin(p, "next", [NoJob EXCEPT !.to = "expired", !.list = s])
    BY DEF RunCleanup
  <1> HIDE DEF s
  <1> DEFINE x == [NoJob EXCEPT !.to = "expired", !.list = s]
  <1>4. x \in Job /\ x.to = "expired" /\ x.list = s
    BY <1>2 DEF NoJob, Job
  <1>5. JobOK(p, "next", x)
    BY <1>1, <1>4 DEF JobOK, SendingAt
  <1>6. Begin(p, "next", x)
    BY <1>3
  <1> HIDE DEF x
  <1>7. pc[p] = "idle" /\ Moves(p, "next", x)
    BY <1>1, <1>4, <1>6, TypedControl, BeginMoves
  <1>8. UNCHANGED <<context, messages, media, page, inbox, faults>>
    BY DEF RunCleanup
  <1>9. Advances(p)
    BY <1>1, <1>4, <1>5, <1>7 DEF Advances, SendingAt
  <1>10. QED
    BY <1>2, <1>4, <1>7, <1>8, <1>9

-----------------------------------------------------------------------------
LEMMA BeginKeepsTypes ==
    ASSUME TypeInv, UNCHANGED <<context, messages, media, page, inbox, faults>>,
           Control', \A q \in Procs : JobOK(q, pc[q], job[q])',
           sent + Cardinality(Senders') <= MaxMessages
    PROVE  TypeInv'
  <1>1. TypeOK'
    BY DEF TypeInv, TypeOK, Control, context, messages, media, page, faults
  <1>2. KindOK'
    BY DEF TypeInv, KindOK, context
  <1>3. (sent + Cardinality(Senders) <= MaxMessages)'
    BY DEF messages
  <1>4. QED
    BY <1>1, <1>2, <1>3 DEF TypeInv

LEMMA MovesKeepJobs ==
    ASSUME TypeInv, NEW p \in Procs, NEW l \in PC, NEW x \in Job,
           Moves(p, l, x), JobOK(p, l, x)
    PROVE  Control' /\ \A q \in Procs : JobOK(q, pc[q], job[q])'
  <1>1. \A q \in Procs : /\ q # p => pc'[q] = pc[q] /\ job'[q] = job[q]
                         /\ q = p => pc'[q] = l /\ job'[q] = x
    BY DEF Moves
  <1>2. \A q \in Procs : JobOK(q, pc[q], job[q])
    BY DEF TypeInv
  <1>3. \A q \in Procs : JobOK(q, pc'[q], job'[q])
    BY <1>1, <1>2
  <1>4. \A q \in Procs : JobOK(q, pc[q], job[q])'
    BY <1>3 DEF JobOK
  <1>5. QED
    BY <1>4 DEF Moves

LEMMA SendKeepsTypes ==
    ASSUME TypeInv, NEW c \in Calls, NEW m \in Assets \cup {None}, Send(c, m)
    PROVE  TypeInv'
  <1>1. PICK l \in SendingAt, x \in Job : Moves(c, l, x) /\ JobOK(c, l, x)
    BY SendMoves
  <1>2. c \in Procs /\ l \in PC
    BY DEF Procs, SendingAt, PC
  <1>3. Control' /\ \A q \in Procs : JobOK(q, pc[q], job[q])'
    BY <1>1, <1>2, MovesKeepJobs
  <1>4. Senders' \subseteq Senders \cup {c}
    BY <1>1 DEF Moves, Senders, Procs
  <1>5. Senders \subseteq Calls /\ Senders \cup {c} \subseteq Calls
    BY DEF Senders
  <1>6. /\ IsFiniteSet(Senders) /\ IsFiniteSet(Senders \cup {c})
        /\ Cardinality(Senders) \in Nat /\ Cardinality(Senders \cup {c}) \in Nat
        /\ Cardinality(Senders') \in Nat
    BY <1>4, <1>5, SendersFinite
  <1>7. Cardinality(Senders') <= Cardinality(Senders \cup {c})
    BY <1>4, <1>6, FS_Subset
  <1>8. Cardinality(Senders \cup {c}) <= Cardinality(Senders) + 1
    BY <1>6, FS_AddElement
  <1>9. sent \in Nat /\ sent + Cardinality(Senders) < MaxMessages
    <2>1. Senders = {d \in Calls : Sending(d)}
      BY DEF Senders, Sending, SendingAt
    <2>2. QED
      BY <2>1 DEF Send, Room, TypeInv, TypeOK
  <1>10. sent + Cardinality(Senders') <= MaxMessages
    BY <1>6, <1>7, <1>8, <1>9
  <1>11. QED
    BY <1>3, <1>10, BeginKeepsTypes, SendMoves

LEMMA OtherCallsKeepTypes ==
    ASSUME TypeInv,
           \/ \E c \in Calls, m \in Assets : ConfirmUpload(c, m) \/ DeleteMedia(c, m)
           \/ \E p \in Sweepers : RunCleanup(p)
    PROVE  TypeInv'
  <1>1. ASSUME NEW c \in Calls, NEW m \in Assets, ConfirmUpload(c, m)
        PROVE  TypeInv'
    <2>1. PICK x \in Job : Moves(c, "activate", x) /\ JobOK(c, "activate", x)
      BY <1>1, ConfirmMoves
    <2>2. c \in Procs /\ "activate" \in PC
      BY DEF Procs, PC
    <2>3. Control' /\ \A q \in Procs : JobOK(q, pc[q], job[q])'
      BY <2>1, <2>2, MovesKeepJobs
    <2>4. Senders' \subseteq Senders
      BY <2>1 DEF Moves, Senders, SendingAt, Procs
    <2>5. QED
      BY <1>1, <2>3, <2>4, ConfirmMoves, BeginKeepsTypes, FewerSenders
  <1>2. ASSUME NEW p \in Procs, Advances(p),
               UNCHANGED <<context, messages, media, page, inbox, faults>>
        PROVE  TypeInv'
    BY <1>2, AdvanceLeavesSenders, BeginKeepsTypes, FewerSenders
  <1>3. ASSUME NEW c \in Calls, NEW m \in Assets, DeleteMedia(c, m)
        PROVE  TypeInv'
    BY <1>2, <1>3, DeleteMoves DEF Procs
  <1>4. ASSUME NEW p \in Sweepers, RunCleanup(p)
        PROVE  TypeInv'
    BY <1>2, <1>4, CleanupMoves DEF Procs
  <1>5. QED
    BY <1>1, <1>3, <1>4

LEMMA FailKeepsTypes ==
    ASSUME TypeInv, NEW p \in Procs, Fails(p)
    PROVE  TypeInv'
  <1>1. /\ Control' /\ \A q \in Procs : JobOK(q, pc[q], job[q])'
        /\ Senders' \subseteq Senders
    BY FailAdvances, AdvanceLeavesSenders
  <1>2. TypeOK' /\ KindOK'
    <2>1. UNCHANGED <<context, messages, media, page, inbox>>
      BY FailAdvances
    <2>2. QED
      BY <1>1, <2>1, FailAdvances
         DEF TypeInv, TypeOK, KindOK, Control, context, messages, media, page
  <1>3. (sent + Cardinality(Senders) <= MaxMessages)'
    <2>1. sent + Cardinality(Senders') <= MaxMessages /\ sent' = sent
      BY <1>1, FailAdvances, FewerSenders DEF messages
    <2>2. QED
      BY <2>1
  <1>4. QED
    BY <1>1, <1>2, <1>3 DEF TypeInv

(* Actions of the storage, of the page and of the friendship. *)
World ==
    \/ \E m \in Assets : RequestUploadUrl(m) \/ Put(m) \/ UrlExpires(m) \/ GetsOld(m)
    \/ \E u \in Viewers :
          \/ OpenPage(u) \/ ClosePage(u) \/ Load(u) \/ Receive(u)
          \/ Disconnect(u) \/ Reconnect(u)
    \/ Friendship

LEMMA WorldLeavesCalls == World => UNCHANGED <<pc, job, kind, messages, faults>>
  BY DEF World, RequestUploadUrl, Put, UrlExpires, GetsOld, OpenPage, ClosePage,
         Load, HistoryAuthorize, HistoryBlock, HistoryRows, HistoryAnswer,
         Receive, Disconnect, Reconnect, Friendship, context

LEMMA PageKeepsTypes ==
    ASSUME TypeOK, NEW u \in Viewers,
           \/ OpenPage(u) \/ ClosePage(u) \/ Load(u) \/ Receive(u)
           \/ Disconnect(u) \/ Reconnect(u)
    PROVE  TypeOK' /\ UNCHANGED <<context, media>>
  <1> DEFINE V == {"closed", "auth", "auth_block", "rows", "answer", "loaded",
                   "refused"}
             Rest == UNCHANGED <<pc, job, context, messages, media, faults>>
  <1>1. ASSUME Rest,
               view' \in [Viewers -> V], read' \in [Viewers -> SUBSET Messages],
               shown' \in [Viewers -> SUBSET Messages],
               inbox' \in [Viewers -> SUBSET Messages], online' \subseteq Viewers
        PROVE  TypeOK' /\ UNCHANGED <<context, media>>
    BY <1>1 DEF TypeOK, context, messages, media, faults
  <1>2. /\ view \in [Viewers -> V] /\ read \in [Viewers -> SUBSET Messages]
        /\ shown \in [Viewers -> SUBSET Messages]
        /\ inbox \in [Viewers -> SUBSET Messages] /\ online \subseteq Viewers
        /\ 1..sent \subseteq Messages
    BY DEF TypeOK, Messages
  <1>3. CASE OpenPage(u)
    BY <1>1, <1>2, <1>3 DEF OpenPage
  <1>4. CASE ClosePage(u)
    BY <1>1, <1>2, <1>4 DEF ClosePage
  <1>5. CASE HistoryAuthorize(u)
    BY <1>1, <1>2, <1>5 DEF HistoryAuthorize
  <1>6. CASE HistoryBlock(u)
    BY <1>1, <1>2, <1>6 DEF HistoryBlock
  <1>7. CASE HistoryRows(u)
    BY <1>1, <1>2, <1>7 DEF HistoryRows
  <1>8. CASE HistoryAnswer(u)
    BY <1>1, <1>2, <1>8 DEF HistoryAnswer
  <1>9. CASE Receive(u)
    BY <1>1, <1>2, <1>9 DEF Receive
  <1>10. CASE Disconnect(u) \/ Reconnect(u)
    BY <1>1, <1>2, <1>10 DEF Disconnect, Reconnect
  <1>11. QED
    BY <1>3, <1>4, <1>5, <1>6, <1>7, <1>8, <1>9, <1>10 DEF Load

LEMMA WorldKeepsTypes ==
    ASSUME TypeInv, World
    PROVE  TypeInv'
  <1>1. UNCHANGED <<pc, job, kind, messages>>
    BY WorldLeavesCalls
  <1>2. TypeOK' /\ KindOK'
    <2>1. TypeOK /\ KindOK
      BY DEF TypeInv
    <2>2. ASSUME NEW m \in Assets,
                 RequestUploadUrl(m) \/ Put(m) \/ UrlExpires(m) \/ GetsOld(m)
          PROVE  TypeOK' /\ KindOK'
      BY <2>1, <2>2 DEF RequestUploadUrl, Put, UrlExpires, GetsOld, TypeOK, KindOK,
                        context, messages, page, faults
    <2>3. ASSUME NEW u \in Viewers,
                 \/ OpenPage(u) \/ ClosePage(u) \/ Load(u) \/ Receive(u)
                 \/ Disconnect(u) \/ Reconnect(u)
          PROVE  TypeOK' /\ KindOK'
      BY <2>1, <2>3, PageKeepsTypes DEF KindOK, context
    <2>4. CASE Friendship
      BY <2>1, <2>4 DEF Friendship, TypeOK, KindOK, messages, media, page, faults
    <2>5. QED
      BY <2>2, <2>3, <2>4 DEF World
  <1>3. \A q \in Procs : JobOK(q, pc[q], job[q])'
    BY <1>1 DEF TypeInv, JobOK
  <1>4. Senders' = Senders /\ sent' = sent
    BY <1>1 DEF Senders, messages
  <1>5. (sent + Cardinality(Senders) <= MaxMessages)'
    BY <1>4 DEF TypeInv
  <1>6. QED
    BY <1>2, <1>3, <1>5 DEF TypeInv

LEMMA NextCases ==
    ASSUME Next
    PROVE  \/ \E p \in Procs : Step(p)
           \/ \E c \in Calls, m \in Assets \cup {None} : Send(c, m)
           \/ \E c \in Calls, m \in Assets : ConfirmUpload(c, m)
           \/ \E c \in Calls, m \in Assets : DeleteMedia(c, m)
           \/ \E p \in Sweepers : RunCleanup(p)
           \/ \E p \in Procs : Fails(p)
           \/ World
  BY DEF Next, Call, World

LEMMA TypesInit == Init => TypeInv
  <1> SUFFICES ASSUME Init PROVE TypeInv
    OBVIOUS
  <1>1. TypeOK
    <2>1. pc \in [Procs -> PC] /\ job \in [Procs -> Job]
      <3>1. "idle" \in PC /\ NoJob \in Job
        BY NoJobType DEF PC
      <3>2. QED
        BY <3>1 DEF Init
    <2>2. /\ kind \in {"anon_session", "friendship"} /\ friends \in BOOLEAN
          /\ blocked \in BOOLEAN
      BY Zenon DEF Init
    <2>7. sent \in 0..MaxMessages
      BY DEF Init
    <2>6. /\ attached \subseteq Messages \X Assets /\ told \subseteq Messages
      BY DEF Init
    <2>3. /\ asset \in [Assets -> {"none", "pending", "active", "expired",
                                   "deleted"}]
          /\ temporary \subseteq Assets /\ old \subseteq Assets
          /\ signed \subseteq Assets
          /\ bytes \in [Assets -> {"none", "stored", "purged"}]
          /\ logged \subseteq Assets
          /\ fails \in 0..MaxFails /\ halted \subseteq Assets
          /\ lost \subseteq Messages \X {"sent", "deleted", "expired"}
      BY DEF Init
    <2>4. /\ view \in [Viewers -> {"closed", "auth", "auth_block", "rows",
                                   "answer", "loaded", "refused"}]
          /\ read \in [Viewers -> SUBSET Messages]
          /\ shown \in [Viewers -> SUBSET Messages]
          /\ inbox \in [Viewers -> SUBSET Messages]
          /\ online \subseteq Viewers
      BY DEF Init
    <2>5. QED
      BY <2>1, <2>2, <2>3, <2>4, <2>6, <2>7 DEF TypeOK
  <1>2. \A p \in Procs : JobOK(p, pc[p], job[p])
    BY DEF Init, JobOK, SendingAt
  <1>3. Senders = {}
    BY DEF Init, Senders, SendingAt, Procs
  <1>4. sent + Cardinality(Senders) <= MaxMessages
    BY <1>3, FS_EmptySet DEF Init
  <1>5. QED
    BY <1>1, <1>2, <1>4 DEF TypeInv, KindOK, Init

LEMMA TypesStep == TypeInv /\ [Next]_vars => TypeInv'
  <1> SUFFICES ASSUME TypeInv, [Next]_vars PROVE TypeInv'
    OBVIOUS
  <1>1. CASE UNCHANGED vars
    <2>1. TypeOK' /\ KindOK'
      BY <1>1 DEF TypeInv, TypeOK, KindOK, vars, context, messages, media, page,
                  faults
    <2>2. Senders' = Senders /\ sent' = sent
      BY <1>1 DEF Senders, vars, messages
    <2>3. \A q \in Procs : JobOK(q, pc[q], job[q])'
      BY <1>1 DEF TypeInv, JobOK, vars
    <2>4. (sent + Cardinality(Senders) <= MaxMessages)'
      BY <2>2 DEF TypeInv
    <2>5. QED
      BY <2>1, <2>3, <2>4 DEF TypeInv
  <1>2. CASE Next
    BY <1>2, NextCases, StepKeepsTypes, SendKeepsTypes, OtherCallsKeepTypes,
       FailKeepsTypes, WorldKeepsTypes
  <1>3. QED
    BY <1>1, <1>2

(* TypeOK for any constants: every call acts upon media that it was given, *)
(* and the messages that are under way fit into the bound.                 *)
THEOREM MessagingTypeSafe == Spec => []TypeOK
  <1>1. TypeInv => TypeOK
    BY DEF TypeInv
  <1>2. QED
    BY <1>1, TypesInit, TypesStep, PTL DEF Spec

-----------------------------------------------------------------------------
(* Sends are admitted at their start and by the two checks that follow. *)
LEMMA Admission ==
    ASSUME TypeInv, Next
    PROVE  /\ kind' = kind
           /\ Friendship \/ UNCHANGED <<friends, blocked>>
           /\ Friendship => UNCHANGED pc
           /\ \A c \in Calls :
                 /\ pc'[c] \in {"media", "insert"} =>
                       pc[c] \in {"media", "insert"} \/ ~blocked
                 /\ pc'[c] \in SendingAt => pc[c] \in SendingAt \/ Found
  <1> DEFINE Admitted(c) ==
                /\ pc'[c] \in {"media", "insert"} =>
                      pc[c] \in {"media", "insert"} \/ ~blocked
                /\ pc'[c] \in SendingAt => pc[c] \in SendingAt \/ Found
  <1>1. ASSUME NEW p \in Procs, Advances(p)
        PROVE  \A c \in Calls : Admitted(c)
    <2>1. PICK l \in PC \ {"activate"}, x \in Job :
             /\ Moves(p, l, x)
             /\ l \in SendingAt => pc[p] \in SendingAt \ {"insert"}
             /\ l \in {"media", "insert"} => pc[p] = "media" \/ ~blocked
      BY <1>1 DEF Advances
    <2>2. QED
      BY <2>1 DEF Moves, Procs
  <1>2. ASSUME NEW c \in Calls, NEW m \in Assets \cup {None}, Send(c, m)
        PROVE  UNCHANGED context /\ \A d \in Calls : Admitted(d)
    <2>1. PICK l \in SendingAt, x \in Job :
             Moves(c, l, x) /\ (kind = "friendship" => l = "auth_block")
      BY <1>2, SendMoves
    <2>2. UNCHANGED context /\ Found
      BY <1>2, SendMoves
    <2>3. kind # "friendship" => ~blocked
      BY DEF TypeInv, TypeOK, KindOK
    <2>4. QED
      BY <2>1, <2>2, <2>3 DEF Moves, Procs
  <1>3. ASSUME NEW c \in Calls, NEW m \in Assets, ConfirmUpload(c, m)
        PROVE  UNCHANGED context /\ \A d \in Calls : Admitted(d)
    <2>1. PICK x \in Job : Moves(c, "activate", x)
      BY <1>3, ConfirmMoves
    <2>2. UNCHANGED context
      BY <1>3, ConfirmMoves
    <2>3. QED
      BY <2>1, <2>2 DEF Moves, Procs, SendingAt
  <1>4. ASSUME NEW p \in Procs, Step(p)
        PROVE  UNCHANGED context /\ \A c \in Calls : Admitted(c)
    <2>1. UNCHANGED context
      BY <1>4, StepWrites
    <2>2. Advances(p)
      BY <1>4, StepAdvances
    <2>3. QED
      BY <1>1, <2>1, <2>2
  <1>5. ASSUME NEW c \in Calls, NEW m \in Assets, DeleteMedia(c, m)
        PROVE  UNCHANGED context /\ \A d \in Calls : Admitted(d)
    <2>1. UNCHANGED context /\ Advances(c) /\ c \in Procs
      BY <1>5, DeleteMoves DEF Procs
    <2>2. QED
      BY <1>1, <2>1
  <1>6. ASSUME NEW p \in Procs, Fails(p) \/ (p \in Sweepers /\ RunCleanup(p))
        PROVE  UNCHANGED context /\ \A d \in Calls : Admitted(d)
    <2>1. UNCHANGED context /\ Advances(p)
      BY <1>6, FailAdvances, CleanupMoves
    <2>2. QED
      BY <1>1, <2>1
  <1>7. ASSUME World
        PROVE  /\ Friendship \/ UNCHANGED context
               /\ kind' = kind
               /\ \A d \in Calls : Admitted(d)
    <2>1. UNCHANGED pc /\ kind' = kind
      BY <1>7, WorldLeavesCalls
    <2>2. Friendship \/ UNCHANGED context
      BY <1>7 DEF World, RequestUploadUrl, Put, UrlExpires, GetsOld, OpenPage,
                  ClosePage, Load, HistoryAuthorize, HistoryBlock, HistoryRows,
                  HistoryAnswer, Receive, Disconnect, Reconnect
    <2>3. QED
      BY <2>1, <2>2 DEF context
  <1> HIDE DEF Admitted
  <1>8. /\ Friendship \/ UNCHANGED context
        /\ \A c \in Calls : Admitted(c)
        /\ kind' = kind
    BY <1>2, <1>3, <1>4, <1>5, <1>6, <1>7, NextCases DEF Admitted, context, Procs
  <1>9. Friendship => UNCHANGED pc
    BY DEF Friendship
  <1>10. QED
    BY <1>8, <1>9 DEF Admitted, context

LEMMA EndSealsStep ==
    ASSUME TypeInv, [Next]_vars
    PROVE  /\ Shut /\ ~Shut' => ~blocked'
           /\ Over /\ ~Over' => friends'
  <1>1. CASE UNCHANGED vars
    BY <1>1 DEF vars, context, Shut, Over, Sending
  <1>2. CASE Next
    <2>1. ASSUME Shut, blocked'
          PROVE  Shut'
      BY <1>2, <2>1, Admission DEF Shut
    <2>2. ASSUME Over, ~friends'
          PROVE  Over'
      BY <1>2, <2>2, Admission DEF Over, Sending, Found, SendingAt
    <2>3. QED
      BY <2>1, <2>2
  <1>3. QED
    BY <1>1, <1>2

(* EndSeals: a block, and the end of the friendship, let no new message    *)
(* past authorize, whatever the sends that had passed its checks still do. *)
THEOREM EndCorrect == Spec => EndSeals
  <1> DEFINE Seals == /\ Shut /\ ~Shut' => ~blocked'
                      /\ Over /\ ~Over' => friends'
  <1>1. TypeInv /\ [Next]_vars => [Seals]_vars
    BY EndSealsStep
  <1>2. QED
    BY <1>1, TypesInit, TypesStep, PTL DEF Spec, EndSeals

-----------------------------------------------------------------------------
(* Bytes.  Only a deletion takes them away, and it marks the media next    *)
(* unless it fails.                                                        *)

(* What the purges and the passes under way have in hand once was. *)
JobsKnown ==
    \A p \in Procs :
        /\ pc'[p] \in {"purge", "mark"} =>
              job'[p].asset \in Assets /\ asset[job'[p].asset] # "none"
        /\ \A m \in job'[p].list : m \in Assets /\ asset[m] # "none"

LEMMA BytesKept ==
    ASSUME BytesInv, JobsKnown,
           \A m \in Assets : asset[m] # "none" => asset'[m] # "none",
           \A m \in Assets : Gone(m) => Gone(m)',
           \A m \in Assets : Marking(m) => Marking(m)' \/ Gone(m)',
           \A m \in Assets :
              bytes'[m] = "purged" =>
                 bytes[m] = "purged" \/ (asset[m] # "none" /\ Marking(m)')
    PROVE  BytesInv'
  <1>1. ASSUME NEW m \in Assets, bytes'[m] = "purged"
        PROVE  asset'[m] # "none" /\ (~Gone(m)' => Marking(m)')
    <2>1. CASE bytes[m] = "purged"
      BY <1>1, <2>1 DEF BytesInv
    <2>2. CASE asset[m] # "none" /\ Marking(m)'
      BY <1>1, <2>2
    <2>3. QED
      BY <1>1, <2>1, <2>2
  <1>2. ASSUME NEW p \in Procs
        PROVE  /\ pc'[p] \in {"purge", "mark"} => asset'[job'[p].asset] # "none"
               /\ \A m \in job'[p].list : asset'[m] # "none"
    BY <1>2 DEF JobsKnown
  <1>3. QED
    BY <1>1, <1>2 DEF BytesInv

LEMMA MovesKeepKnown ==
    ASSUME TypeInv, BytesInv, NEW p \in Procs, NEW l \in PC, NEW x \in Job,
           Moves(p, l, x),
           l \in {"purge", "mark"} => x.asset \in Assets /\ asset[x.asset] # "none",
           \A m \in x.list : asset[m] # "none"
    PROVE  JobsKnown
  <1>1. \A q \in Procs : JobOK(q, pc[q], job[q]) /\ job[q] \in Job
    BY DEF TypeInv, TypeOK
  <1>2. x.list \subseteq Assets /\ \A q \in Procs : job[q].list \subseteq Assets
    BY <1>1 DEF Job
  <1>3. pc'[p] = l /\ job'[p] = x
        /\ \A q \in Procs : q # p => pc'[q] = pc[q] /\ job'[q] = job[q]
    BY DEF Moves
  <1>4. ASSUME NEW q \in Procs, q # p
        PROVE  /\ pc'[q] \in {"purge", "mark"} =>
                     job'[q].asset \in Assets /\ asset[job'[q].asset] # "none"
               /\ \A m \in job'[q].list : m \in Assets /\ asset[m] # "none"
    BY <1>1, <1>2, <1>3, <1>4 DEF BytesInv, JobOK
  <1>5. QED
    BY <1>2, <1>3, <1>4 DEF JobsKnown

(* A deletion marks what it has purged; nobody else takes media up. *)
LEMMA StepKeepsAsset ==
    ASSUME TypeInv, NEW p \in Procs, Step(p),
           ~SweepNext(p), ~FindStalePending(p)
    PROVE  /\ pc'[p] # "purge"
           /\ pc'[p] = "mark" => pc[p] = "purge" /\ job'[p].asset = job[p].asset
           /\ job'[p].list \subseteq job[p].list
  <1>1. p \in DOMAIN pc /\ p \in DOMAIN job /\ job[p] \in Job /\ NoJob.list = {}
    BY DEF TypeInv, TypeOK, NoJob
  <1>2. CASE \/ AuthorizeBlock(p) \/ CheckMedia(p) \/ AddAttachment(p)
             \/ Activate(p) \/ PurgeObject(p) \/ MarkStatus(p)
    <2>1. PICK l \in {"idle", "insert", "media", "recipients", "mark", "next",
                      "notify"} :
             Goto(p, l) /\ (l = "mark" => pc[p] = "purge")
      BY <1>2 DEF AuthorizeBlock, CheckMedia, AddAttachment, Activate, PurgeObject,
                  MarkStatus, AfterAuthorize
    <2>2. pc'[p] = l /\ job'[p] = IF l = "idle" THEN NoJob ELSE job[p]
      BY <1>1, <2>1 DEF Goto
    <2>3. QED
      BY <1>1, <2>1, <2>2
  <1>3. CASE InsertMessage(p)
    <2>1. /\ pc'[p] \in {"recipients", "attach"}
          /\ job'[p] = [job[p] EXCEPT !.msgs = {sent'}]
      BY <1>1, <1>3 DEF InsertMessage
    <2>2. job'[p].list = job[p].list
      BY <1>1, <2>1 DEF Job
    <2>3. QED
      BY <2>1, <2>2
  <1>4. ASSUME NEW n, Announced(p, n)
        PROVE  pc'[p] \in {"recipients", "next", "idle"}
               /\ job'[p].list \subseteq job[p].list
    <2>1. /\ pc'[p] \in {"recipients", "next", "idle"}
          /\ \/ job'[p] = NoJob
             \/ job'[p] = [job[p] EXCEPT !.msgs = @ \ {n}]
      BY <1>1, <1>4 DEF Announced, After
    <2>2. [job[p] EXCEPT !.msgs = @ \ {n}].list = job[p].list
      BY <1>1 DEF Job
    <2>3. QED
      BY <1>1, <2>1, <2>2
  <1>5. CASE Recipients(p) \/ RecipientsBlock(p)
    <2>1. (\E n \in job[p].msgs : Announced(p, n)) \/ Goto(p, "recipients_block")
      BY <1>5 DEF Recipients, RecipientsBlock
    <2>2. CASE Goto(p, "recipients_block")
      BY <1>1, <2>2 DEF Goto
    <2>3. QED
      BY <1>4, <2>1, <2>2
  <1>6. CASE NotifyMediaGone(p)
    <2>1. PICK s : Notify(p, s)
      BY <1>6 DEF NotifyMediaGone
    <2>2. /\ pc'[p] \in {"recipients", "next", "idle"}
          /\ \/ job'[p] = NoJob
             \/ job'[p] = [job[p] EXCEPT !.msgs = s]
      BY <1>1, <2>1 DEF Notify, After
    <2>3. [job[p] EXCEPT !.msgs = s].list = job[p].list
      BY <1>1 DEF Job
    <2>4. QED
      BY <1>1, <2>2, <2>3
  <1>7. QED
    BY <1>2, <1>3, <1>5, <1>6 DEF Step

LEMMA StepKeepsKnown ==
    ASSUME TypeInv, BytesInv, NEW p \in Procs, Step(p)
    PROVE  JobsKnown
  <1>1. job[p] \in Job /\ JobOK(p, pc[p], job[p])
    BY DEF TypeInv, TypeOK
  <1>2. \A m \in job[p].list : m \in Assets /\ asset[m] # "none"
    BY <1>1 DEF BytesInv, Job
  <1>3. CASE SweepNext(p) \/ FindStalePending(p)
    <2>1. CASE \E m \in job[p].list :
                  Moves(p, "purge", [job[p] EXCEPT !.asset = m, !.list = @ \ {m}])
      <3>1. PICK m \in job[p].list :
               Moves(p, "purge", [job[p] EXCEPT !.asset = m, !.list = @ \ {m}])
        BY <2>1
      <3> DEFINE x == [job[p] EXCEPT !.asset = m, !.list = @ \ {m}]
      <3>2. x \in Job /\ x.asset = m /\ x.list \subseteq job[p].list
        BY <1>1, <1>2 DEF Job
      <3>3. Moves(p, "purge", x) /\ "purge" \in PC
        BY <3>1 DEF PC
      <3> HIDE DEF x
      <3>4. QED
        BY <1>2, <3>2, <3>3, MovesKeepKnown
    <2>2. CASE Moves(p, "find_orphans", job[p])
      BY <1>1, <1>2, <2>2, MovesKeepKnown DEF PC
    <2>3. CASE Moves(p, "idle", NoJob)
      <3>1. NoJob \in Job /\ NoJob.list = {} /\ "idle" \in PC
        BY NoJobType DEF NoJob, PC
      <3>2. QED
        BY <2>3, <3>1, MovesKeepKnown
    <2>4. ASSUME NEW s \in SUBSET {m \in Assets : asset[m] = "pending"},
                 NEW x \in Job, Moves(p, "next", x), x.list = s
          PROVE  JobsKnown
      BY <2>4, MovesKeepKnown DEF PC
    <2>5. QED
      BY <1>3, <2>1, <2>2, <2>3, <2>4, SweepAdvances
  <1>4. CASE ~SweepNext(p) /\ ~FindStalePending(p)
    <2>1. Advances(p)
      BY StepAdvances
    <2>2. PICK l \in PC, x \in Job : Moves(p, l, x) /\ JobOK(p, l, x)
      BY <2>1 DEF Advances
    <2>3. pc'[p] = l /\ job'[p] = x
      BY <2>2 DEF Moves
    <2>4. /\ l # "purge"
          /\ l = "mark" => pc[p] = "purge" /\ x.asset = job[p].asset
          /\ x.list \subseteq job[p].list
      BY <1>4, <2>3, StepKeepsAsset
    <2>5. l = "mark" => x.asset \in Assets /\ asset[x.asset] # "none"
      BY <2>2, <2>4 DEF BytesInv, JobOK
    <2>6. QED
      BY <1>2, <2>2, <2>4, <2>5, MovesKeepKnown
  <1>5. QED
    BY <1>3, <1>4

(* A step of p leaves what others are marking. *)
LEMMA AdvanceKeepsMarking ==
    ASSUME TypeInv, NEW p \in Procs, Advances(p), NEW m \in Assets, Marking(m),
           halted \subseteq halted', pc[p] = "mark" => job[p].asset # m
    PROVE  Marking(m)'
  <1>1. PICK l \in PC, x \in Job : Moves(p, l, x)
    BY DEF Advances
  <1>2. CASE m \in halted
    BY <1>2 DEF Marking
  <1>3. CASE \E q \in Procs : pc[q] = "mark" /\ job[q].asset = m
    <2>1. PICK q \in Procs : pc[q] = "mark" /\ job[q].asset = m
      BY <1>3
    <2>2. pc'[q] = "mark" /\ job'[q].asset = m
      BY <1>1, <2>1 DEF Moves
    <2>3. QED
      BY <2>2 DEF Marking
  <1>4. QED
    BY <1>2, <1>3 DEF Marking

LEMMA QuietBytes ==
    ASSUME TypeInv, BytesInv, JobsKnown, NEW p \in Procs, Advances(p),
           pc[p] # "mark", UNCHANGED <<asset, bytes, halted>>
    PROVE  BytesInv'
  <1>1. \A m \in Assets : Marking(m) => Marking(m)'
    BY AdvanceKeepsMarking
  <1>2. \A m \in Assets : Gone(m) => Gone(m)'
    BY DEF Gone
  <1>3. QED
    BY <1>1, <1>2, BytesKept

LEMMA StepKeepsBytes ==
    ASSUME TypeInv, BytesInv, NEW p \in Procs, Step(p)
    PROVE  BytesInv'
  <1>1. Advances(p) /\ JobsKnown
    BY StepAdvances, StepKeepsKnown
  <1>2. halted' = halted
    BY StepWrites DEF faults
  <1>3. job[p] \in Job /\ JobOK(p, pc[p], job[p])
        /\ asset \in [Assets -> {"none", "pending", "active", "expired", "deleted"}]
        /\ bytes \in [Assets -> {"none", "stored", "purged"}]
    BY DEF TypeInv, TypeOK
  <1>4. CASE Activate(p)
    <2>1. pc[p] = "activate" /\ job[p].asset \in Assets /\ bytes' = bytes
      BY <1>3, <1>4 DEF Activate, JobOK
    <2>2. \A m \in Assets : Marking(m) => Marking(m)'
      BY <1>1, <1>2, <2>1, AdvanceKeepsMarking
    <2>3. \A m \in Assets :
             \/ asset'[m] = asset[m]
             \/ asset[m] = "pending" /\ asset'[m] = "active"
      BY <1>3, <1>4 DEF Activate
    <2>4. \A m \in Assets : Gone(m) => Gone(m)'
      BY <2>3 DEF Gone
    <2>5. \A m \in Assets : asset[m] # "none" => asset'[m] # "none"
      BY <2>3
    <2>6. QED
      BY <1>1, <2>1, <2>2, <2>4, <2>5, BytesKept
  <1>5. CASE PurgeObject(p)
    <2>1. /\ pc[p] = "purge" /\ asset' = asset /\ job[p].asset \in Assets
          /\ Goto(p, "mark")
          /\ \A m \in Assets : m # job[p].asset => bytes'[m] = bytes[m]
      BY <1>3, <1>5 DEF PurgeObject, JobOK
    <2>2. Moves(p, "mark", job[p])
      BY <2>1, TypedControl, GotoMoves DEF PC
    <2>3. \A m \in Assets : Marking(m) => Marking(m)'
      BY <1>1, <1>2, <2>1, AdvanceKeepsMarking
    <2>4. Marking(job[p].asset)' /\ asset[job[p].asset] # "none"
      <3>1. PICK m \in Assets : m = job[p].asset
        BY <2>1
      <3>2. pc'[p] = "mark" /\ job'[p].asset = m
        BY <2>2, <3>1 DEF Moves
      <3>3. job'[p].asset = job[p].asset
        BY <3>1, <3>2
      <3>4. asset[m] # "none"
        BY <2>1, <3>1 DEF BytesInv
      <3>5. QED
        BY <2>2, <3>1, <3>4 DEF Marking, Moves
    <2>5. \A m \in Assets : Gone(m) => Gone(m)'
      BY <2>1 DEF Gone
    <2>6. \A m \in Assets :
             bytes'[m] = "purged" =>
                bytes[m] = "purged" \/ (asset[m] # "none" /\ Marking(m)')
      <3>1. ASSUME NEW m \in Assets, m = job[p].asset
            PROVE  asset[m] # "none" /\ Marking(m)'
        <4>1. pc'[p] = "mark" /\ job'[p].asset = m
          BY <2>2, <3>1 DEF Moves
        <4>2. QED
          BY <2>4, <3>1, <4>1 DEF Marking
      <3>2. QED
        BY <2>1, <3>1
    <2>7. QED
      BY <1>1, <2>1, <2>3, <2>5, <2>6, BytesKept
  <1>6. CASE MarkStatus(p)
    <2>1. /\ pc[p] = "mark" /\ bytes' = bytes /\ job[p].asset \in Assets
          /\ job[p].to \in {"expired", "deleted"}
          /\ asset' = [asset EXCEPT ![job[p].asset] = job[p].to]
      BY <1>3, <1>6 DEF MarkStatus, JobOK, Job
    <2>2. \A m \in Assets : /\ m # job[p].asset => asset'[m] = asset[m]
                            /\ m = job[p].asset => asset'[m] \in {"expired", "deleted"}
      BY <1>3, <2>1
    <2>3. \A m \in Assets : Gone(m) => Gone(m)'
      BY <2>2 DEF Gone
    <2>4. \A m \in Assets : asset[m] # "none" => asset'[m] # "none"
      BY <2>2
    <2>5. \A m \in Assets : Marking(m) => Marking(m)' \/ Gone(m)'
      <3>1. ASSUME NEW m \in Assets, Marking(m), m # job[p].asset
            PROVE  Marking(m)'
        BY <1>1, <1>2, <3>1, AdvanceKeepsMarking
      <3>2. \A m \in Assets : m = job[p].asset => Gone(m)'
        BY <2>2 DEF Gone
      <3>3. QED
        BY <3>1, <3>2
    <2>6. QED
      BY <1>1, <2>1, <2>3, <2>4, <2>5, BytesKept
  <1>7. CASE SweepNext(p) \/ FindStalePending(p)
    <2>1. pc[p] # "mark" /\ UNCHANGED <<asset, bytes>>
      BY <1>7, SweepAdvances DEF media
    <2>2. QED
      BY <1>1, <1>2, <2>1, QuietBytes
  <1>8. CASE \/ AuthorizeBlock(p) \/ CheckMedia(p) \/ InsertMessage(p)
             \/ AddAttachment(p) \/ Recipients(p) \/ RecipientsBlock(p)
             \/ NotifyMediaGone(p)
    <2>1. pc[p] # "mark" /\ UNCHANGED <<asset, bytes>>
      BY <1>8 DEF AuthorizeBlock, CheckMedia, InsertMessage, AddAttachment,
                  Recipients, RecipientsBlock, NotifyMediaGone, Notify, media
    <2>2. QED
      BY <1>1, <1>2, <2>1, QuietBytes
  <1>9. QED
    BY <1>4, <1>5, <1>6, <1>7, <1>8 DEF Step

(* What begins holds nothing yet, or media that exists. *)
LEMMA BeginKeepsBytes ==
    ASSUME TypeInv, BytesInv, NEW p \in Procs, pc[p] = "idle",
           UNCHANGED <<asset, bytes, halted>>, NEW l \in PC, NEW x \in Job,
           Moves(p, l, x),
           l \in {"purge", "mark"} => x.asset \in Assets /\ asset[x.asset] # "none",
           \A m \in x.list : asset[m] # "none"
    PROVE  BytesInv'
  <1>1. JobsKnown
    BY MovesKeepKnown
  <1>2. \A m \in Assets : Marking(m) => Marking(m)'
    BY DEF Marking, Moves
  <1>3. \A m \in Assets : Gone(m) => Gone(m)'
    BY DEF Gone
  <1>4. QED
    BY <1>1, <1>2, <1>3, BytesKept

LEMMA BeginningsKeepBytes ==
    ASSUME TypeInv, BytesInv,
           \/ \E c \in Calls, m \in Assets \cup {None} : Send(c, m)
           \/ \E c \in Calls, m \in Assets : ConfirmUpload(c, m) \/ DeleteMedia(c, m)
           \/ \E p \in Sweepers : RunCleanup(p)
    PROVE  BytesInv'
  <1>1. {"activate", "purge", "next"} \cup SendingAt \subseteq PC
        /\ Calls \subseteq Procs /\ Sweepers \subseteq Procs
    BY DEF PC, SendingAt, Procs
  <1>2. ASSUME NEW c \in Calls, NEW m \in Assets \cup {None}, Send(c, m)
        PROVE  BytesInv'
    <2>1. PICK l \in SendingAt, x \in Job : Moves(c, l, x) /\ x.list = {}
      BY <1>2, SendMoves
    <2>2. pc[c] = "idle" /\ UNCHANGED <<asset, bytes, halted>>
      BY <1>2 DEF Send, Begin, media, faults
    <2>3. l \notin {"purge", "mark"}
      BY DEF SendingAt
    <2>4. QED
      BY <1>1, <2>1, <2>2, <2>3, BeginKeepsBytes
  <1>3. ASSUME NEW c \in Calls, NEW m \in Assets, ConfirmUpload(c, m)
        PROVE  BytesInv'
    <2>1. PICK x \in Job : Moves(c, "activate", x) /\ x.list = {}
      BY <1>3, ConfirmMoves
    <2>2. pc[c] = "idle" /\ UNCHANGED <<asset, bytes, halted>>
      BY <1>3, ConfirmMoves DEF media, faults
    <2>3. QED
      BY <1>1, <2>1, <2>2, BeginKeepsBytes
  <1>4. ASSUME NEW c \in Calls, NEW m \in Assets, DeleteMedia(c, m)
        PROVE  BytesInv'
    <2>1. PICK x \in Job : Moves(c, "purge", x) /\ x.asset = m /\ x.list = {}
      BY <1>4, DeleteMoves
    <2>2. pc[c] = "idle" /\ asset[m] # "none" /\ UNCHANGED <<asset, bytes, halted>>
      BY <1>4, DeleteMoves DEF media, faults
    <2>3. QED
      BY <1>1, <2>1, <2>2, BeginKeepsBytes
  <1>5. ASSUME NEW p \in Sweepers, RunCleanup(p)
        PROVE  BytesInv'
    <2>1. PICK x \in Job : Moves(p, "next", x) /\ \A m \in x.list : asset[m] = "active"
      BY <1>5, CleanupMoves
    <2>2. pc[p] = "idle" /\ UNCHANGED <<asset, bytes, halted>>
      BY <1>5, CleanupMoves DEF media, faults
    <2>3. QED
      BY <1>1, <2>1, <2>2, BeginKeepsBytes
  <1>6. QED
    BY <1>2, <1>3, <1>4, <1>5

LEMMA FailKeepsBytes ==
    ASSUME TypeInv, BytesInv, NEW p \in Procs, Fails(p)
    PROVE  BytesInv'
  <1>1. Moves(p, "idle", NoJob) /\ UNCHANGED <<asset, bytes>>
    BY FailAdvances DEF media
  <1>2. JobsKnown
    <2>1. NoJob \in Job /\ NoJob.list = {} /\ "idle" \in PC
      BY NoJobType DEF NoJob, PC
    <2>2. QED
      BY <1>1, <2>1, MovesKeepKnown
  <1>3. ASSUME NEW m \in Assets, Marking(m)
        PROVE  Marking(m)'
    <2>1. CASE pc[p] = "mark" /\ job[p].asset = m
      <3>1. m \in halted'
        BY <2>1, FailAdvances
      <3>2. QED
        BY <3>1 DEF Marking
    <2>2. CASE ~(pc[p] = "mark" /\ job[p].asset = m)
      BY <1>3, <2>2, FailAdvances, AdvanceKeepsMarking
    <2>3. QED
      BY <2>1, <2>2
  <1>4. \A m \in Assets : Gone(m) => Gone(m)'
    BY <1>1 DEF Gone
  <1>5. QED
    BY <1>1, <1>2, <1>3, <1>4, BytesKept

LEMMA WorldKeepsBytes ==
    ASSUME TypeInv, BytesInv, World
    PROVE  BytesInv'
  <1>1. UNCHANGED <<pc, job, halted>>
    BY WorldLeavesCalls DEF faults
  <1>2. \A m \in Assets :
           /\ \/ asset'[m] = asset[m]
              \/ asset[m] = "none" /\ asset'[m] = "pending"
           /\ bytes'[m] = "purged" => bytes[m] = "purged"
    <2>1. /\ asset \in [Assets -> {"none", "pending", "active", "expired", "deleted"}]
          /\ bytes \in [Assets -> {"none", "stored", "purged"}]
      BY DEF TypeInv, TypeOK
    <2>2. ASSUME NEW m \in Assets,
                 RequestUploadUrl(m) \/ Put(m) \/ UrlExpires(m) \/ GetsOld(m)
          PROVE  \A n \in Assets :
                    /\ \/ asset'[n] = asset[n]
                       \/ asset[n] = "none" /\ asset'[n] = "pending"
                    /\ bytes'[n] = "purged" => bytes[n] = "purged"
      BY <2>1, <2>2 DEF RequestUploadUrl, Put, UrlExpires, GetsOld
    <2>3. ASSUME \/ Friendship
                 \/ \E u \in Viewers :
                       \/ OpenPage(u) \/ ClosePage(u) \/ Load(u) \/ Receive(u)
                       \/ Disconnect(u) \/ Reconnect(u)
          PROVE  UNCHANGED media
      BY <2>3 DEF Friendship, OpenPage, ClosePage, Load, HistoryAuthorize,
                  HistoryBlock, HistoryRows, HistoryAnswer, Receive, Disconnect,
                  Reconnect
    <2>4. QED
      BY <2>2, <2>3 DEF World, media
  <1>3. JobsKnown
    <2>1. \A p \in Procs : JobOK(p, pc[p], job[p]) /\ job[p] \in Job
      BY DEF TypeInv, TypeOK
    <2>2. \A p \in Procs : job[p].list \subseteq Assets
      BY <2>1 DEF Job
    <2>3. QED
      BY <1>1, <2>1, <2>2 DEF JobsKnown, BytesInv, JobOK
  <1>4. \A m \in Assets : Marking(m) => Marking(m)'
    BY <1>1 DEF Marking
  <1>5. /\ \A m \in Assets : Gone(m) => Gone(m)'
        /\ \A m \in Assets : asset[m] # "none" => asset'[m] # "none"
    BY <1>2 DEF Gone
  <1>6. QED
    BY <1>2, <1>3, <1>4, <1>5, BytesKept

LEMMA BytesStep == TypeInv /\ BytesInv /\ [Next]_vars => BytesInv'
  <1> SUFFICES ASSUME TypeInv, BytesInv, [Next]_vars PROVE BytesInv'
    OBVIOUS
  <1>1. CASE UNCHANGED vars
    BY <1>1 DEF vars, media, faults, BytesInv, Marking, Gone
  <1>2. CASE Next
    BY <1>2, NextCases, StepKeepsBytes, BeginningsKeepBytes, FailKeepsBytes,
       WorldKeepsBytes
  <1>3. QED
    BY <1>1, <1>2

(* ActiveHasBytes: no confirmation brings back media that a deletion or    *)
(* the cleanup has emptied, however they interleave; only one that failed  *)
(* before markStatus leaves it like that.                                  *)
THEOREM BytesCorrect == Spec => []ActiveHasBytes
  <1>1. Init => BytesInv
    <2> SUFFICES ASSUME Init PROVE BytesInv
      OBVIOUS
    <2>1. \A p \in Procs : pc[p] = "idle" /\ job[p].list = {}
      BY DEF Init, NoJob
    <2>2. \A m \in Assets : bytes[m] = "none"
      BY DEF Init
    <2>3. QED
      BY <2>1, <2>2 DEF BytesInv
  <1>2. BytesInv => ActiveHasBytes
    BY DEF BytesInv, Marking, Gone, ActiveHasBytes
  <1>3. QED
    BY <1>1, <1>2, TypesInit, TypesStep, BytesStep, PTL DEF Spec
=============================================================================
