---------------------------- MODULE MCMessaging ----------------------------
(* Instances of Messaging for TLC. *)
EXTENDS Messaging

CONSTANT Scenes

(* What a run looks at: the page; the media of a session or of friends,    *)
(* with no page open; passes of the cleanup that overlap, with no message. *)
VARIABLE scene

MCInit ==
    /\ Init
    /\ scene \in Scenes
    /\ scene \in {"media", "sweeps"} => kind = "anon_session"
    /\ scene = "friends_media" => kind = "friendship"

(* Bounds: passes overlap, uploads are confirmed without bytes or written  *)
(* to after that in one scene only.  A run that looks at the media sends   *)
(* nothing else, one message at a time, and media that is gone is neither  *)
(* sent nor deleted once more; friends send it once, and block each other  *)
(* but do not part.  Sends fail where the page is looked at, what deletes  *)
(* media elsewhere.                                                        *)
Begins(c, l) == pc[c] = "idle" /\ pc'[c] = l

Bounds ==
    /\ scene # "sweeps" => \E s \in Sweepers : Busy(Sweepers)' \subseteq {s}
    /\ \A p \in Procs :
          Fails(p) /\ scene # "sweeps" => (job[p].to = "sent" <=> scene = "page")
    /\ scene # "page" =>
          \A c \in Calls :
              pc[c] = "idle" /\ pc'[c] # "idle" =>
                  job'[c].asset # None /\ ~Gone(job'[c].asset)
    /\ scene = "sweeps" => \A c \in Calls : ~Begins(c, "media")
    /\ scene \in {"media", "friends_media"} =>
          /\ \A c, d \in Calls :
                Begins(c, "media") \/ Begins(c, "auth_block") => ~Sending(d)
          /\ \A c \in Calls, m \in Assets :
                Begins(c, "activate") => bytes[m] = "stored" /\ m \notin signed
          /\ Cardinality(Busy(Procs)') <= MaxBusy
    /\ scene = "friends_media" =>
          /\ UNCHANGED friends
          /\ \A c \in Calls : Begins(c, "auth_block") => sent = 0

MCNext ==
    /\ Next
    /\ IF scene = "page" THEN UNCHANGED media ELSE UNCHANGED page
    /\ Bounds
    /\ UNCHANGED scene

MCSpec ==
    /\ MCInit /\ [][MCNext]_<<vars, scene>>
    /\ \A p \in Procs : WF_vars(Step(p))
    /\ WF_vars(\E p \in Sweepers : RunCleanup(p))
    /\ \A u \in Viewers : WF_vars(Receive(u))
=============================================================================
