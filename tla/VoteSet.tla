------------------------------ MODULE VoteSet ------------------------------
(***************************************************************************)
(* One VoteSet of vote.ts fed by the network: any validator may vote for   *)
(* any hash, more than once (an equivocator), and any peer may claim that  *)
(* a hash has +2/3.                                                        *)
(***************************************************************************)
EXTENDS VoteSets

VARIABLES
    voteSet,    \* the VoteSet object
    delivered,  \* history: the <<validator, hash>> pairs addVote was given
    reported    \* validators whose conflicting vote addVote returned

vars == <<voteSet, delivered, reported>>

Init ==
    /\ voteSet = EmptyVoteSet
    /\ delivered = {}
    /\ reported = {}

(* VoteSet.addVote with a correctly signed vote of validator v.            *)
AddVote(v, h) ==
    /\ voteSet' = AddVerifiedVote(voteSet, v, h)
    /\ delivered' = delivered \cup {<<v, h>>}
    /\ reported' = reported \cup {w \in {v} : ReturnsConflict(voteSet, v, h)}

(* VoteSet.setPeerMaj23.                                                   *)
ClaimMaj23(p, h) ==
    /\ voteSet' = SetPeerMaj23(voteSet, p, h)
    /\ UNCHANGED <<delivered, reported>>

Next ==
    \/ \E v \in Validators, h \in Hashes : AddVote(v, h)
    \/ \E p \in Peers, h \in Hashes : ClaimMaj23(p, h)

Spec == Init /\ [][Next]_vars

-----------------------------------------------------------------------------
(* The state has the shape vote.ts declares.                               *)
TypeOK ==
    /\ voteSet \in VoteSetType
    /\ delivered \subseteq Validators \X Hashes
    /\ reported \subseteq Validators

BlockVoters(h) == voteSet.votesByBlock[h].votes

(* The running sums of addVerifiedVote stay equal to the power of the      *)
(* votes they stand for, in every order of votes, conflicts and claims.    *)
CountersMatchVotes ==
    /\ voteSet.votesBitArray = {v \in Validators : voteSet.votes[v] # None}
    /\ voteSet.sum = PowerOf(voteSet.votesBitArray)
    /\ \A h \in Hashes : voteSet.votesByBlock[h].sum = PowerOf(BlockVoters(h))

(* maj23 is set exactly when some hash has a quorum of votes, and is then  *)
(* such a hash: no +2/3 is missed when a vote crosses the threshold, none  *)
(* is announced early.                                                     *)
Maj23IsQuorum ==
    /\ voteSet.maj23 # None => IsQuorum(BlockVoters(voteSet.maj23))
    /\ voteSet.maj23 = None => \A h \in Hashes : ~ IsQuorum(BlockVoters(h))

(* A hash with +2/3 of the votes implies +2/3 of any votes: what           *)
(* enterPrevoteWait and enterPrecommitWait demand before they go on.       *)
Maj23ImpliesAny == HasTwoThirdsMajority(voteSet) => HasTwoThirdsAny(voteSet)

(* The seal built from a vote set with +2/3 (getAggregatedBitArray) passes *)
(* the check every importer of the block makes (setAggregatedSignature),   *)
(* even after later conflicting votes overwrote entries of `votes`.        *)
SealVerifies ==
    HasTwoThirdsMajority(voteSet) =>
        SetAggregatedSignature(EmptyVoteSet, AggregatedBitArray(voteSet),
                               voteSet.maj23).maj23 = voteSet.maj23

(* Two hashes both have quorums only if a third of the power voted twice.  *)
ForksNeedEquivocation ==
    \A h1, h2 \in Hashes :
        (h1 # h2 /\ IsQuorum(BlockVoters(h1)) /\ IsQuorum(BlockVoters(h2)))
          => 3 * PowerOf(BlockVoters(h1) \cap BlockVoters(h2)) >= TotalVotingPower

(* An equivocator is either reported as evidence or counted for both of    *)
(* its hashes: no second vote vanishes without a trace.                    *)
SecondVotesKept ==
    \A v \in Validators : \A h1, h2 \in Hashes :
        (h1 # h2 /\ <<v, h1>> \in delivered /\ <<v, h2>> \in delivered)
          => v \in reported \/ v \in BlockVoters(h1) \cap BlockVoters(h2)

(* Only a validator that really signed two hashes is ever reported.        *)
ReportedEquivocated ==
    \A v \in reported : \E h1, h2 \in Hashes :
        h1 # h2 /\ <<v, h1>> \in delivered /\ <<v, h2>> \in delivered

(* Every equivocation is counted or reported, and nothing else is          *)
(* reported: both of the above (addVerifiedVote).                          *)
EquivocationKept == SecondVotesKept /\ ReportedEquivocated

(* Once a hash has +2/3, no vote and no claim changes that decision.       *)
Maj23Stable ==
    [][voteSet.maj23 # None => voteSet'.maj23 = voteSet.maj23]_vars
=============================================================================
