----------------------------- MODULE MCMatching -----------------------------
(* Instances of Matching for TLC. *)
EXTENDS Matching, TLC

CONSTANTS u1, u2, u3

(* Requests are interchangeable; so are users where every user has the     *)
(* same gender and the same possible blocks.                               *)
ReqSymmetry == Permutations(Reqs)
ReqUserSymmetry == Permutations(Reqs) \cup Permutations(Users)

OneGender == [u \in Users |-> "other"]
TwoGenders == [u \in Users |-> IF u = u1 THEN "female" ELSE "other"]

NoBlocks == {}
OneBlock == {<<u1, u2>>}

=============================================================================
