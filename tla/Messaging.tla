----------------------------- MODULE Messaging -----------------------------
(***************************************************************************)
(* One conversation and the media sent in it: messagingService.ts and      *)
(* mediaService.ts, with the open conversation of the browser              *)
(* (useConversation.ts) on the other side.                                 *)
(*                                                                         *)
(* A call c \in Calls is a socket event or a REST request being served, a  *)
(* sweeper a pass of the media cleanup.  Both are sequences of actions, one *)
(* per statement or call of the storage, and may fail at each of them.     *)
(* Calls that are refused at once, by somebody who is not a participant or *)
(* not the owner of the media, change nothing and are left out, and so are *)
(* typing and read receipts, which nothing reads.  Friendship stands for   *)
(* the module Friends.                                                     *)
(***************************************************************************)
EXTENDS Naturals, FiniteSets

CONSTANTS
    Calls,
    Sweepers,      \* passes of the cleanup that may overlap
    Viewers,       \* participants that have the conversation open
    Assets,        \* ids of media assets; each is used once
    MaxMessages,   \* bound: messages
    MaxBusy,       \* bound: calls and passes under way when one more begins
    MaxFails,      \* bound: calls and passes that fail half-way
    None

ASSUME MessagingAssumption ==
    /\ IsFiniteSet(Calls)
    /\ MaxMessages \in Nat
    /\ MaxBusy \in Nat
    /\ MaxFails \in Nat
    /\ Sweepers \cap Calls = {}
    /\ None \notin Assets

VARIABLES
    pc, job,
    kind,      \* messages.context_type of the conversation
    friends,   \* whether friendships.deleted_at is null
    blocked,   \* whether one of the two blocks the other
    sent,      \* how many messages there are; they are numbered from 1
    attached,  \* message_attachments: pairs of a message and an asset
    told,      \* the messages whose participants know that the media is gone
    asset,     \* media_assets.status
    temporary, \* media_assets.is_temporary
    old,       \* assets past expires_at or, if pending, past the cutoff
    signed,    \* assets with an upload URL that is still valid
    bytes,     \* what the object storage has of an asset
    logged,    \* assets whose deletion the object storage has refused
    view,      \* how far a viewer is with loading the conversation
    read,      \* the history that was read for it
    shown,     \* the messages on the page
    inbox,     \* receive_message events on their way
    online,    \* the viewers whose socket is connected
    fails,     \* how many calls and passes have failed
    halted,    \* history: assets purged, or to be, by one that then failed
    lost       \* history: messages and the announcements of them that failed

context == <<kind, friends, blocked>>
messages == <<sent, attached, told>>
media == <<asset, temporary, old, signed, bytes, logged>>
page == <<view, read, shown, online>>
faults == <<fails, halted, lost>>
vars == <<pc, job, context, messages, media, page, inbox, faults>>

Procs == Calls \cup Sweepers

Messages == 1..MaxMessages

Job == [asset : Assets \cup {None},
        msgs : SUBSET Messages,      \* still to be announced
        to : {"sent", "deleted", "expired"},
        list : SUBSET Assets]        \* what a sweeper has found

NoJob == [asset |-> None, msgs |-> {}, to |-> "sent", list |-> {}]

PC == {"idle", "auth_block", "media", "insert", "attach", "recipients",
       "recipients_block", "activate", "purge", "mark", "notify", "next",
       "find_orphans"}

Gone(m) == asset[m] \in {"expired", "deleted"}

(* What authorize and recipients find: first the participants or the row   *)
(* of the friendship, then, for friends, the blocks.                       *)
Found == kind = "anon_session" \/ friends

Open == kind = "anon_session" \/ (friends /\ ~blocked)

Init ==
    /\ pc = [p \in Procs |-> "idle"]
    /\ job = [p \in Procs |-> NoJob]
    /\ kind \in {"anon_session", "friendship"}
    /\ friends = TRUE
    /\ blocked = FALSE
    /\ sent = 0
    /\ attached = {}
    /\ told = {}
    /\ asset = [m \in Assets |-> "none"]
    /\ temporary = {}
    /\ old = {}
    /\ signed = {}
    /\ bytes = [m \in Assets |-> "none"]
    /\ logged = {}
    /\ view = [u \in Viewers |-> "closed"]
    /\ read = [u \in Viewers |-> {}]
    /\ shown = [u \in Viewers |-> {}]
    /\ inbox = [u \in Viewers |-> {}]
    /\ online = Viewers
    /\ fails = 0
    /\ halted = {}
    /\ lost = {}

Busy(procs) == {p \in procs : pc[p] # "idle"}

(* Any idle call or sweeper serves, so take one.  A first pass is never    *)
(* kept waiting.                                                           *)
Begin(p, l, j) ==
    /\ pc[p] = "idle"
    /\ p = CHOOSE q \in IF p \in Calls THEN Calls ELSE Sweepers : pc[q] = "idle"
    /\ \/ p \in Sweepers /\ Busy(Sweepers) = {}
       \/ Cardinality(Busy(Procs)) < MaxBusy
    /\ pc' = [pc EXCEPT ![p] = l]
    /\ job' = [job EXCEPT ![p] = j]

Goto(p, l) ==
    /\ pc' = [pc EXCEPT ![p] = l]
    /\ job' = [job EXCEPT ![p] = IF l = "idle" THEN NoJob ELSE @]

(* What follows the announcements: a sweeper's next asset, or nothing. *)
After(p) == IF p \in Sweepers THEN "next" ELSE "idle"

-----------------------------------------------------------------------------
(* sendMessage and sendMediaMessage *)

Sending(c) == pc[c] \in {"auth_block", "media", "insert"}

(* The messages so far and those to come stay within the bound. *)
Room == sent + Cardinality({c \in Calls : Sending(c)}) < MaxMessages

AfterAuthorize(j) == IF j.asset = None THEN "insert" ELSE "media"

(* authorize of a message, with media or without, up to its first answer. *)
Send(c, m) ==
    /\ Room
    /\ Found
    /\ LET j == [NoJob EXCEPT !.asset = m]
       IN  Begin(c, IF kind = "friendship" THEN "auth_block"
                    ELSE AfterAuthorize(j), j)
    /\ UNCHANGED <<context, messages, media, page, inbox, faults>>

(* Variant: blocks are left to recipients. *)
AuthorizeBlock_Later(c) ==
    /\ pc[c] = "auth_block"
    /\ Goto(c, AfterAuthorize(job[c]))
    /\ UNCHANGED <<context, messages, media, page, inbox, faults>>

AuthorizeBlock(c) ==
    /\ pc[c] = "auth_block"
    /\ Goto(c, IF blocked THEN "idle" ELSE AfterAuthorize(job[c]))
    /\ UNCHANGED <<context, messages, media, page, inbox, faults>>

CheckMedia(c) ==
    /\ pc[c] = "media"
    /\ Goto(c, IF asset[job[c].asset] = "active" THEN "insert" ELSE "idle")
    /\ UNCHANGED <<context, messages, media, page, inbox, faults>>

InsertMessage(c) ==
    /\ pc[c] = "insert"
    /\ sent' = sent + 1
    /\ job' = [job EXCEPT ![c].msgs = {sent'}]
    /\ pc' = [pc EXCEPT ![c] = IF job[c].asset = None THEN "recipients"
                               ELSE "attach"]
    /\ UNCHANGED <<context, attached, told, media, page, inbox, faults>>

AddAttachment(c) ==
    /\ pc[c] = "attach"
    /\ attached' = attached \cup {<<n, job[c].asset>> : n \in job[c].msgs}
    /\ Goto(c, "recipients")
    /\ UNCHANGED <<context, sent, told, media, page, inbox, faults>>

-----------------------------------------------------------------------------
(* recipients and the events to them, of a message or of media that is     *)
(* gone; the latter go message by message.                                 *)

(* The page marks the media of a message that it shows. *)
Announce(p, n) ==
    IF job[p].to = "sent"
    THEN /\ inbox' = [u \in Viewers |->
                        IF u \in online THEN inbox[u] \cup {n} ELSE inbox[u]]
         /\ UNCHANGED told
    ELSE told' = told \cup {n} /\ UNCHANGED inbox

(* The announcement of message n is over, whether or not anybody got it. *)
Announced(p, n) ==
    LET left == job[p].msgs \ {n}
        over == left = {} /\ p \in Calls
    IN  /\ pc' = [pc EXCEPT ![p] = IF left # {} THEN "recipients" ELSE After(p)]
        /\ job' = [job EXCEPT ![p] = IF over THEN NoJob
                                     ELSE [@ EXCEPT !.msgs = left]]

Recipients(p) ==
    /\ pc[p] = "recipients"
    /\ \E n \in job[p].msgs :
          \/ kind = "anon_session" /\ Announce(p, n) /\ Announced(p, n)
          \/ ~Found /\ UNCHANGED <<told, inbox>> /\ Announced(p, n)
          \/ /\ kind = "friendship" /\ friends
             /\ Goto(p, "recipients_block")
             /\ UNCHANGED <<told, inbox>>
    /\ UNCHANGED <<context, sent, attached, media, page, faults>>

(* Variant: the condition is negated. *)
RecipientsBlock_Negated(p) ==
    /\ pc[p] = "recipients_block"
    /\ \E n \in job[p].msgs :
          /\ IF blocked THEN Announce(p, n) ELSE UNCHANGED <<told, inbox>>
          /\ Announced(p, n)
    /\ UNCHANGED <<context, sent, attached, media, page, faults>>

RecipientsBlock(p) ==
    /\ pc[p] = "recipients_block"
    /\ \E n \in job[p].msgs :
          /\ IF blocked THEN UNCHANGED <<told, inbox>> ELSE Announce(p, n)
          /\ Announced(p, n)
    /\ UNCHANGED <<context, sent, attached, media, page, faults>>

-----------------------------------------------------------------------------
(* Uploads *)

(* requestUploadUrl: createPending, and a signed URL. *)
RequestUploadUrl(m) ==
    /\ asset[m] = "none"
    /\ asset' = [asset EXCEPT ![m] = "pending"]
    /\ temporary' \in {temporary, temporary \cup {m}}
    /\ signed' = signed \cup {m}
    /\ UNCHANGED <<pc, job, context, messages, old, bytes, logged, page, inbox,
                   faults>>

(* The browser writes to the storage as long as the URL is valid, whatever *)
(* the status is.                                                          *)
Put(m) ==
    /\ m \in signed
    /\ bytes' = [bytes EXCEPT ![m] = "stored"]
    /\ UNCHANGED <<pc, job, context, messages, asset, temporary, old, signed,
                   logged, page, inbox, faults>>

(* confirmUpload, which does not ask the storage whether there is anything. *)
ConfirmUpload(c, m) ==
    /\ asset[m] = "pending"
    /\ Begin(c, "activate", [NoJob EXCEPT !.asset = m])
    /\ UNCHANGED <<context, messages, media, page, inbox, faults>>

(* Variant: the update does not ask for a pending asset. *)
Activate_Always(c) ==
    /\ pc[c] = "activate"
    /\ asset' = [asset EXCEPT ![job[c].asset] = "active"]
    /\ old' = old \ {job[c].asset}
    /\ Goto(c, "idle")
    /\ UNCHANGED <<context, messages, temporary, signed, bytes, logged, page,
                   inbox, faults>>

Activate(c) ==
    /\ pc[c] = "activate"
    /\ IF asset[job[c].asset] = "pending"
       THEN /\ asset' = [asset EXCEPT ![job[c].asset] = "active"]
            /\ old' = old \ {job[c].asset}
       ELSE UNCHANGED <<asset, old>>
    /\ Goto(c, "idle")
    /\ UNCHANGED <<context, messages, temporary, signed, bytes, logged, page,
                   inbox, faults>>

-----------------------------------------------------------------------------
(* deleteMedia and runCleanup *)

DeleteMedia(c, m) ==
    /\ asset[m] # "none"
    /\ Begin(c, "purge", [NoJob EXCEPT !.asset = m, !.to = "deleted"])
    /\ UNCHANGED <<context, messages, media, page, inbox, faults>>


(* deleteObject; an error is caught and logged. *)
PurgeObject(p) ==
    /\ pc[p] = "purge"
    /\ \/ bytes' = [bytes EXCEPT ![job[p].asset] = "purged"] /\ UNCHANGED logged
       \/ logged' = logged \cup {job[p].asset} /\ UNCHANGED bytes
    /\ Goto(p, "mark")
    /\ UNCHANGED <<context, messages, asset, temporary, old, signed, page,
                   inbox, faults>>

(* Orphans that a sweeper has found are not announced. *)
MarkStatus(p) ==
    /\ pc[p] = "mark"
    /\ asset' = [asset EXCEPT ![job[p].asset] = job[p].to]
    /\ Goto(p, IF p \in Sweepers /\ job[p].to = "deleted" THEN "next" ELSE "notify")
    /\ UNCHANGED <<context, messages, temporary, old, signed, bytes, logged,
                   page, inbox, faults>>

(* The announcements to come, if any. *)
Notify(p, msgs) ==
    /\ pc' = [pc EXCEPT ![p] = IF msgs = {} THEN After(p) ELSE "recipients"]
    /\ job' = [job EXCEPT ![p] = IF msgs = {} /\ p \in Calls THEN NoJob
                                 ELSE [@ EXCEPT !.msgs = msgs]]
    /\ UNCHANGED <<context, messages, media, page, inbox, faults>>

MessagesOf(m) == {n \in Messages : <<n, m>> \in attached}

(* Variant: one message of the asset is enough. *)
NotifyMediaGone_LimitOne(p) ==
    /\ pc[p] = "notify"
    /\ Notify(p, {n \in MessagesOf(job[p].asset) :
                    \A k \in MessagesOf(job[p].asset) : n <= k})

(* notifyMediaGone up to messageIdsForMedia. *)
NotifyMediaGone(p) ==
    /\ pc[p] = "notify"
    /\ Notify(p, MessagesOf(job[p].asset))

(* The interval fires, also during a pass, and findExpired answers. *)
RunCleanup(p) ==
    /\ Begin(p, "next", [NoJob EXCEPT !.to = "expired", !.list =
          {m \in temporary \cap old : asset[m] = "active"}])
    /\ UNCHANGED <<context, messages, media, page, inbox, faults>>

(* The next asset of the list; findStalePending once there is none left. *)
SweepNext(p) ==
    /\ pc[p] = "next"
    /\ \/ \E m \in job[p].list :
             /\ pc' = [pc EXCEPT ![p] = "purge"]
             /\ job' = [job EXCEPT ![p].asset = m, ![p].list = @ \ {m}]
       \/ /\ job[p].list = {}
          /\ Goto(p, IF job[p].to = "expired" THEN "find_orphans" ELSE "idle")
    /\ UNCHANGED <<context, messages, media, page, inbox, faults>>

FindStalePending(p) ==
    /\ pc[p] = "find_orphans"
    /\ pc' = [pc EXCEPT ![p] = "next"]
    /\ job' = [job EXCEPT ![p] = [NoJob EXCEPT !.to = "deleted", !.list =
                 {m \in old : asset[m] = "pending"}]]
    /\ UNCHANGED <<context, messages, media, page, inbox, faults>>

-----------------------------------------------------------------------------
(* A query is rejected, or the process dies: the call or the whole pass    *)
(* ends where it is.  startCleanup logs it, a handler answers with it, and *)
(* nobody takes up what was left.                                          *)

(* The messages that p was going to announce. *)
Unannounced(p) ==
    IF pc[p] = "notify" THEN MessagesOf(job[p].asset) ELSE job[p].msgs

Fails(p) ==
    /\ p \in Busy(Procs)
    /\ fails < MaxFails
    /\ fails' = fails + 1
    /\ halted' = IF pc[p] = "mark" THEN halted \cup {job[p].asset} ELSE halted
    /\ lost' = lost \cup (Unannounced(p) \X {job[p].to})
    /\ Goto(p, "idle")
    /\ UNCHANGED <<context, messages, media, page, inbox>>

-----------------------------------------------------------------------------
(* The page of a viewer *)

(* The effect of useConversation: an empty page, and the history requested. *)
OpenPage(u) ==
    /\ view[u] = "closed"
    /\ view' = [view EXCEPT ![u] = "auth"]
    /\ shown' = [shown EXCEPT ![u] = {}]
    /\ UNCHANGED <<pc, job, context, messages, media, read, online, inbox,
                   faults>>

(* A closed page ignores what still comes. *)
ClosePage(u) ==
    /\ view[u] # "closed"
    /\ view' = [view EXCEPT ![u] = "closed"]
    /\ shown' = [shown EXCEPT ![u] = {}]
    /\ read' = [read EXCEPT ![u] = {}]
    /\ UNCHANGED <<pc, job, context, messages, media, online, inbox, faults>>

(* history: authorize, the rows, the answer.  A refusal leaves the page empty. *)
HistoryAuthorize(u) ==
    /\ view[u] = "auth"
    /\ view' = [view EXCEPT ![u] =
          IF ~Found THEN "refused"
          ELSE IF kind = "friendship" THEN "auth_block" ELSE "rows"]
    /\ UNCHANGED <<pc, job, context, messages, media, read, shown, online,
                   inbox, faults>>

HistoryBlock(u) ==
    /\ view[u] = "auth_block"
    /\ view' = [view EXCEPT ![u] = IF blocked THEN "refused" ELSE "rows"]
    /\ UNCHANGED <<pc, job, context, messages, media, read, shown, online,
                   inbox, faults>>

HistoryRows(u) ==
    /\ view[u] = "rows"
    /\ read' = [read EXCEPT ![u] = 1..sent]
    /\ view' = [view EXCEPT ![u] = "answer"]
    /\ UNCHANGED <<pc, job, context, messages, media, shown, online, inbox,
                   faults>>

(* The answer takes the place of what has come live in between. *)
HistoryAnswer(u) ==
    /\ view[u] = "answer"
    /\ shown' = [shown EXCEPT ![u] = read[u]]
    /\ read' = [read EXCEPT ![u] = {}]
    /\ view' = [view EXCEPT ![u] = "loaded"]
    /\ UNCHANGED <<pc, job, context, messages, media, online, inbox, faults>>

(* onMessage *)
Receive(u) ==
    /\ \E n \in inbox[u] :
          /\ inbox' = [inbox EXCEPT ![u] = @ \ {n}]
          /\ shown' = IF view[u] = "closed" THEN shown
                      ELSE [shown EXCEPT ![u] = @ \cup {n}]
    /\ UNCHANGED <<pc, job, context, messages, media, view, read, online,
                   faults>>

(* What is on its way is lost with the connection. *)
Disconnect(u) ==
    /\ u \in online
    /\ online' = online \ {u}
    /\ inbox' = [inbox EXCEPT ![u] = {}]
    /\ UNCHANGED <<pc, job, context, messages, media, view, read, shown,
                   faults>>

Reconnect(u) ==
    /\ u \notin online
    /\ online' = online \cup {u}
    /\ UNCHANGED <<pc, job, context, messages, media, view, read, shown, inbox,
                   faults>>

-----------------------------------------------------------------------------
(* The friendship, and time *)

Friendship ==
    /\ kind = "friendship"
    /\ \/ ~blocked /\ friends' = TRUE /\ UNCHANGED blocked
       \/ friends' = FALSE /\ UNCHANGED blocked
       \/ blocked' \in BOOLEAN /\ UNCHANGED friends
    /\ UNCHANGED <<pc, job, kind, messages, media, page, inbox, faults>>

(* The URL is valid for minutes, a pending upload for an hour, temporary   *)
(* media for days.                                                         *)
UrlExpires(m) ==
    /\ m \in signed
    /\ signed' = signed \ {m}
    /\ UNCHANGED <<pc, job, context, messages, asset, temporary, old, bytes,
                   logged, page, inbox, faults>>

GetsOld(m) ==
    /\ m \notin signed \cup old
    /\ asset[m] = "pending" \/ (asset[m] = "active" /\ m \in temporary)
    /\ old' = old \cup {m}
    /\ UNCHANGED <<pc, job, context, messages, asset, temporary, signed, bytes,
                   logged, page, inbox, faults>>

-----------------------------------------------------------------------------
Step(p) ==
    \/ AuthorizeBlock(p) \/ CheckMedia(p) \/ InsertMessage(p) \/ AddAttachment(p)
    \/ Recipients(p) \/ RecipientsBlock(p) \/ Activate(p) \/ PurgeObject(p)
    \/ MarkStatus(p) \/ NotifyMediaGone(p) \/ SweepNext(p) \/ FindStalePending(p)

Call(c) ==
    \/ \E m \in Assets \cup {None} : Send(c, m)
    \/ \E m \in Assets : ConfirmUpload(c, m) \/ DeleteMedia(c, m)

Load(u) == HistoryAuthorize(u) \/ HistoryBlock(u) \/ HistoryRows(u) \/ HistoryAnswer(u)

Next ==
    \/ \E c \in Calls : Call(c)
    \/ \E p \in Sweepers : RunCleanup(p)
    \/ \E p \in Procs : Step(p) \/ Fails(p)
    \/ \E m \in Assets : RequestUploadUrl(m) \/ Put(m) \/ UrlExpires(m) \/ GetsOld(m)
    \/ \E u \in Viewers :
          \/ OpenPage(u) \/ ClosePage(u) \/ Load(u) \/ Receive(u)
          \/ Disconnect(u) \/ Reconnect(u)
    \/ Friendship

Spec == Init /\ [][Next]_vars

(* Calls and passes go on, the interval fires and a connected socket       *)
(* delivers.                                                               *)
FairSpec ==
    /\ Spec
    /\ \A p \in Procs : WF_vars(Step(p))
    /\ WF_vars(\E p \in Sweepers : RunCleanup(p))
    /\ \A u \in Viewers : WF_vars(Receive(u))

-----------------------------------------------------------------------------
(* Properties *)

TypeOK ==
    /\ pc \in [Procs -> PC]
    /\ job \in [Procs -> Job]
    /\ kind \in {"anon_session", "friendship"}
    /\ friends \in BOOLEAN
    /\ blocked \in BOOLEAN
    /\ sent \in 0..MaxMessages
    /\ attached \subseteq Messages \X Assets
    /\ told \subseteq Messages
    /\ asset \in [Assets -> {"none", "pending", "active", "expired", "deleted"}]
    /\ temporary \subseteq Assets
    /\ old \subseteq Assets
    /\ signed \subseteq Assets
    /\ bytes \in [Assets -> {"none", "stored", "purged"}]
    /\ logged \subseteq Assets
    /\ view \in [Viewers -> {"closed", "auth", "auth_block", "rows", "answer",
                             "loaded", "refused"}]
    /\ read \in [Viewers -> SUBSET Messages]
    /\ shown \in [Viewers -> SUBSET Messages]
    /\ inbox \in [Viewers -> SUBSET Messages]
    /\ online \subseteq Viewers
    /\ fails \in 0..MaxFails
    /\ halted \subseteq Assets
    /\ lost \subseteq Messages \X {"sent", "deleted", "expired"}

(* A block and the end of the friendship close the conversation: once no   *)
(* send is under way that passed the check in question before, no other    *)
(* one gets past it until the block is lifted or the two are friends again. *)
Shut == blocked /\ \A c \in Calls : pc[c] \notin {"media", "insert"}

Over == kind = "friendship" /\ ~friends /\ \A c \in Calls : ~Sending(c)

EndSeals ==
    [][/\ Shut /\ ~Shut' => ~blocked'
       /\ Over /\ ~Over' => friends']_vars

(* No confirmation brings back an asset that a deletion or the cleanup has *)
(* emptied: one that is active and has been emptied is about to be marked, *)
(* unless the call or the pass failed between deleteObject and markStatus. *)
ActiveHasBytes ==
    \A m \in Assets :
        asset[m] = "active" /\ bytes[m] = "purged" =>
            \/ \E p \in Procs : pc[p] = "mark" /\ job[p].asset = m
            \/ m \in halted

(* As long as the conversation stays open, its participants are told of    *)
(* every message whose media goes, unless a sweeper took the media for an  *)
(* orphan before it was confirmed, or the announcement of it failed.       *)
Orphan(m) ==
    \E p \in Sweepers :
        /\ job[p].to = "deleted"
        /\ m \in job[p].list \cup {job[p].asset}

Silenced(n) == {<<n, "deleted">>, <<n, "expired">>} \cap lost # {}

GoneIsTold ==
    \A m \in Assets, n \in Messages :
        [](<<n, m>> \in attached /\ asset[m] = "active" /\ ~Orphan(m) /\ []Open
             => [](Gone(m) => <>(n \in told \/ Silenced(n))))

(* Temporary media ends, and its bytes go with it unless the storage has   *)
(* refused, also when its owner is not about to delete it; an upload that  *)
(* nobody confirms ends too.                                               *)
Lapsed(m) ==
    /\ m \in old
    /\ asset[m] = "pending" \/ (asset[m] = "active" /\ m \in temporary)
    /\ \A c \in Calls : pc[c] = "mark" => job[c].asset # m


(* A page that is loaded and connected while a message is sent shows it,   *)
(* unless the send fails once the message is stored.                       *)
Attentive(u) == view[u] = "loaded" /\ u \in online /\ Open

MessagesReach ==
    \A u \in Viewers, n \in Messages :
        [](sent < n /\ []Attentive(u)
             => [](sent >= n => <>(n \in shown[u] \/ <<n, "sent">> \in lost)))
=============================================================================
