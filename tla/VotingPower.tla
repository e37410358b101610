---------------------------- MODULE VotingPower ----------------------------
(***************************************************************************)
(* The voting power of an active validator set, as the vote sets use it.   *)
(*                                                                         *)
(* The code adds BN voting powers one vote at a time.  Here the power of a *)
(* set of validators is the number of unit shares its members own: a sum   *)
(* that needs no recursion, so that additivity and the intersection of     *)
(* quorums can be proved for every validator set and every power.          *)
(***************************************************************************)
EXTENDS Integers, FiniteSets

CONSTANTS
    Validators,     \* the active validators of one height
    VotingPower     \* VotingPower[v]: the voting power of validator v

ASSUME ValidatorsAssumption == IsFiniteSet(Validators)
ASSUME VotingPowerAssumption == VotingPower \in [Validators -> Nat \ {0}]

(* The unit shares of voting power that validator v owns.                  *)
Shares(v) == {v} \X (1 .. VotingPower[v])

(* ActiveValidatorSet.getVotingPower, summed over a set of validators.     *)
PowerOf(S) == Cardinality(UNION {Shares(v) : v \in S})

(* ActiveValidatorSet.totalVotingPower.                                    *)
TotalVotingPower == PowerOf(Validators)

(* (Operators named <Definition>_<fault> throughout the modules are the    *)
(* definition with a plausible programming error: they show that the       *)
(* properties can fail.)                                                   *)
TwoThirds_OneThird == TotalVotingPower \div 3

(* The largest power that is not a two-thirds majority: BN division floors. *)
TwoThirds == (2 * TotalVotingPower) \div 3

(* VoteSet.addVerifiedVote: quorum = total * 2 / 3 + 1.                    *)
Quorum == TwoThirds + 1

(* A set of validators that holds a quorum of the voting power.            *)
IsQuorum(S) == S \subseteq Validators /\ PowerOf(S) >= Quorum
=============================================================================
