---------------------------- MODULE MCCommunities ----------------------------
(* Instances of Communities for TLC. *)
EXTENDS Communities, TLC

UserSymmetry == Permutations(Users)
AllVisibilities == {"public", "request", "invite"}

(* orderly remembers whether all calls so far took turns and only users    *)
(* without a membership row accepted an invitation.                        *)
VARIABLE orderly

MCInit == Init /\ orderly = TRUE

MCNext == Next /\ orderly' = (orderly /\ (TakeTurns /\ NewcomersAccept)')

MCSpec == MCInit /\ [][MCNext]_<<vars, orderly>>

(* communityRepository.ts, incMemberCount: as long as the calls about a    *)
(* community take turns and nobody with a row accepts an invitation,       *)
(* memberCount is the number of active rows whenever no call is under way. *)
MemberCountIsExact == orderly => CountSettles
=============================================================================
