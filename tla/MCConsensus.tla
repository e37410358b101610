---------------------------- MODULE MCConsensus ----------------------------
(* Two honest validators of power 2 and 1 and a faulty one of power 1, two *)
(* blocks, three rounds: the quorum is 3, so the heavy validator needs one *)
(* of the others and a round can be decided with the faulty one's help.    *)
EXTENDS Consensus, TLC

CONSTANTS v1, v2, v3, b1, b2

MCValidators == {v1, v2, v3}
MCVotingPower == (v1 :> 2) @@ (v2 :> 1) @@ (v3 :> 1)
MCBlocks == {b1, b2}
MCFaulty == {v3}

ASSUME MinorityAssumption == FaultyAreMinority

(* Every vote of the faulty validators has been made public.               *)
FaultyDone ==
    \A v \in Faulty, r \in Rounds, h \in Hashes :
        Vote(v, r, h) \in prevotes \cap precommits

(* Bound on the interleavings: the faulty validators vote first.  No guard *)
(* of an honest one is falsified by a vote, and no property by the lack of *)
(* a faulty vote, so every violation has a behaviour of this form.         *)
MCNext ==
    /\ Next
    /\ FaultyDone \/ \A v \in Honest : ~ VotedSince(prevotes' \cup precommits', v, 0)
MCSpec == Init /\ [][MCNext]_vars

MCSymmetry == Permutations(MCBlocks)
=============================================================================
