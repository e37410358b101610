--------------------------- MODULE VoteSetProofs ---------------------------
(***************************************************************************)
(* Proofs about the vote set, for every validator set, every distribution  *)
(* of voting power and every sequence of votes, conflicts and claims.      *)
(***************************************************************************)
EXTENDS VoteSet, VoteSetsProofs

-----------------------------------------------------------------------------
(* The invariant of the specification.                                     *)
HistoryOK ==
    /\ delivered \subseteq Validators \X Hashes
    /\ reported \subseteq Validators

IInv == VoteSetInv(voteSet) /\ HistoryOK

LEMMA InitIInv == Init => IInv
  BY EmptyVoteSetInv DEF Init, IInv, HistoryOK

(* Every call keeps the invariant, and no call changes maj23 once set.     *)
LEMMA NextIInv ==
  IInv /\ [Next]_vars => IInv' /\ (voteSet.maj23 # None => voteSet'.maj23 = voteSet.maj23)
<1> SUFFICES ASSUME IInv, [Next]_vars
             PROVE  IInv' /\ (voteSet.maj23 # None => voteSet'.maj23 = voteSet.maj23)
  OBVIOUS
<1> USE DEF IInv, HistoryOK
<1>1. ASSUME NEW v \in Validators, NEW h \in Hashes, AddVote(v, h)
      PROVE  IInv' /\ (voteSet.maj23 # None => voteSet'.maj23 = voteSet.maj23)
  <2>1. /\ VoteSetInv(voteSet')
        /\ voteSet.maj23 # None => voteSet'.maj23 = voteSet.maj23
    BY <1>1, AddVerifiedVoteInv DEF AddVote
  <2>2. HistoryOK'
    BY <1>1 DEF AddVote
  <2> QED
    BY <2>1, <2>2 DEF VoteSetInv, CountersOK, BlockVotersRecorded, Maj23OK, Maj23VotersAgree
<1>2. ASSUME NEW p \in Peers, NEW h \in Hashes, ClaimMaj23(p, h)
      PROVE  IInv' /\ (voteSet.maj23 # None => voteSet'.maj23 = voteSet.maj23)
  <2>1. VoteSetInv(voteSet') /\ voteSet'.maj23 = voteSet.maj23
    BY <1>2, SetPeerMaj23Inv DEF ClaimMaj23
  <2>2. HistoryOK'
    BY <1>2 DEF ClaimMaj23
  <2> QED
    BY <2>1, <2>2 DEF VoteSetInv, CountersOK, BlockVotersRecorded, Maj23OK, Maj23VotersAgree
<1>3. CASE UNCHANGED vars
  BY <1>3 DEF vars, VoteSetInv, CountersOK, BlockVotersRecorded, Maj23OK, Maj23VotersAgree
<1> QED
  BY <1>1, <1>2, <1>3 DEF Next

LEMMA Invariance == Spec => []IInv
<1>1. Init => IInv
  BY InitIInv
<1>2. IInv /\ [Next]_vars => IInv'
  BY NextIInv
<1> QED
  BY <1>1, <1>2, PTL DEF Spec

(* The vote set always has the declared shape.                             *)
THEOREM TypeCorrect == Spec => []TypeOK
<1>1. IInv => TypeOK
  BY DEF IInv, VoteSetInv, HistoryOK, TypeOK
<1> QED
  BY <1>1, Invariance, PTL

(* The running sums of addVerifiedVote never drift from the votes.         *)
THEOREM CountersCorrect == Spec => []CountersMatchVotes
<1>1. IInv => CountersMatchVotes
  BY DEF IInv, VoteSetInv, CountersOK, CountersMatchVotes, BlockVoters
<1> QED
  BY <1>1, Invariance, PTL

(* maj23 is announced exactly when one hash has a quorum.                  *)
THEOREM Maj23Correct == Spec => []Maj23IsQuorum
<1>1. IInv => Maj23IsQuorum
  BY DEF IInv, VoteSetInv, Maj23OK, Maj23IsQuorum, BlockVoters
<1> QED
  BY <1>1, Invariance, PTL

(* maj23, once set, is final.                                              *)
THEOREM Maj23Final == Spec => Maj23Stable
<1>1. IInv /\ [Next]_vars => [voteSet.maj23 # None => voteSet'.maj23 = voteSet.maj23]_vars
  BY NextIInv
<1> QED
  BY <1>1, Invariance, PTL DEF Spec, Maj23Stable

(* Whatever the votes, the seal of a decided vote set is a valid seal.     *)
THEOREM SealCorrect == Spec => []SealVerifies
<1>1. IInv => SealVerifies
  <2> SUFFICES ASSUME IInv, voteSet.maj23 # None
               PROVE  SetAggregatedSignature(EmptyVoteSet,
                        AggregatedBitArray(voteSet), voteSet.maj23).maj23
                          = voteSet.maj23
    BY DEF SealVerifies, HasTwoThirdsMajority
  <2> DEFINE bits == AggregatedBitArray(voteSet)
             voters == voteSet.votesByBlock[voteSet.maj23].votes
  <2>1. /\ voteSet \in VoteSetType /\ voteSet.maj23 \in Hashes
        /\ CountersOK(voteSet) /\ BlockVotersRecorded(voteSet)
        /\ Maj23OK(voteSet) /\ Maj23VotersAgree(voteSet)
    BY DEF IInv, VoteSetInv, VoteSetType
  <2>2. /\ voters \subseteq bits
        /\ bits \in SUBSET Validators
        /\ IsQuorum(voters)
    BY <2>1 DEF AggregatedBitArray, BlockVotersRecorded, Maj23VotersAgree,
                VoteSetType, Maj23OK
  <2>3. IsQuorum(bits)
    BY <2>2, QuorumMonotone DEF IsQuorum
  <2>4. PowerOf(bits) \in Nat /\ TwoThirds \in Nat
    BY <2>2, PowerType, QuorumIsTwoThirds
  <2>5. ~ (PowerOf(bits) <= TwoThirds)
    BY <2>3, <2>4 DEF IsQuorum, Quorum
  <2> HIDE DEF bits
  <2> QED
    BY <2>5 DEF SetAggregatedSignature, EmptyVoteSet, bits
<1> QED
  BY <1>1, Invariance, PTL

(* The quorum rule itself: two decisions in one vote set cost a third of   *)
(* the power in equivocation.                                              *)
THEOREM ForkAccountability == Spec => []ForksNeedEquivocation
<1>1. IInv => ForksNeedEquivocation
  <2> SUFFICES ASSUME IInv, NEW h1 \in Hashes, NEW h2 \in Hashes,
                      IsQuorum(BlockVoters(h1)), IsQuorum(BlockVoters(h2))
               PROVE  3 * PowerOf(BlockVoters(h1) \cap BlockVoters(h2))
                        >= TotalVotingPower
    BY DEF ForksNeedEquivocation
  <2> DEFINE both == BlockVoters(h1) \cap BlockVoters(h2)
  <2>1. /\ BlockVoters(h1) \in SUBSET Validators
        /\ BlockVoters(h2) \in SUBSET Validators
        /\ both \in SUBSET Validators
    BY DEF IsQuorum
  <2>2. ~ (3 * PowerOf(both) < TotalVotingPower)
    BY <2>1, QuorumIntersection
  <2>3. PowerOf(both) \in Nat /\ TotalVotingPower \in Nat
    BY <2>1, PowerType, QuorumIsTwoThirds
  <2> HIDE DEF both
  <2>4. 3 * PowerOf(both) >= TotalVotingPower
    BY <2>2, <2>3
  <2> QED
    BY <2>4 DEF both
<1> QED
  BY <1>1, Invariance, PTL

(* +2/3 for one hash implies +2/3 of any votes.                            *)
THEOREM MajorityCounted == Spec => []Maj23ImpliesAny
<1>1. IInv => Maj23ImpliesAny
  <2> SUFFICES ASSUME IInv, voteSet.maj23 # None
               PROVE  voteSet.sum > TwoThirds
    BY DEF Maj23ImpliesAny, HasTwoThirdsMajority, HasTwoThirdsAny
  <2> DEFINE voters == voteSet.votesByBlock[voteSet.maj23].votes
  <2>1. /\ voteSet.maj23 \in Hashes
        /\ voteSet.votesBitArray \in SUBSET Validators
        /\ voters \in SUBSET Validators
        /\ voters \subseteq voteSet.votesBitArray
        /\ IsQuorum(voters)
        /\ voteSet.sum = PowerOf(voteSet.votesBitArray)
    BY DEF IInv, VoteSetInv, VoteSetType, CountersOK, BlockVotersRecorded, Maj23OK, IsQuorum
  <2>2. IsQuorum(voteSet.votesBitArray)
    BY <2>1, QuorumMonotone
  <2> QED
    BY <2>1, <2>2, PowerType, QuorumIsTwoThirds DEF IsQuorum, Quorum
<1> QED
  BY <1>1, Invariance, PTL

-----------------------------------------------------------------------------
(* What the history has to do with the votes kept: whatever is recorded or *)
(* counted was delivered, and what was delivered is counted or reported.   *)
KeptWasDelivered ==
    /\ \A v \in Validators : voteSet.votes[v] # None => <<v, voteSet.votes[v]>> \in delivered
    /\ \A h \in Hashes : \A v \in BlockVoters(h) : <<v, h>> \in delivered

DeliveredIsKept ==
    \A v \in Validators, h \in Hashes :
        <<v, h>> \in delivered => v \in reported \/ v \in BlockVoters(h)

EInv == IInv /\ KeptWasDelivered /\ DeliveredIsKept /\ ReportedEquivocated

LEMMA InitEInv == Init => EInv
<1>1. Init => IInv
  BY InitIInv
<1>2. Init => KeptWasDelivered /\ DeliveredIsKept /\ ReportedEquivocated
  BY DEF Init, KeptWasDelivered, DeliveredIsKept, ReportedEquivocated, BlockVoters,
         EmptyVoteSet, NoBlockVotes
<1> QED
  BY <1>1, <1>2 DEF EInv

(* Every vote that addVote is given is kept or reported, and a report is   *)
(* about two votes that were given.                                        *)
LEMMA AddVoteEInv ==
  ASSUME EInv, NEW v \in Validators, NEW h \in Hashes, AddVote(v, h)
  PROVE  KeptWasDelivered' /\ DeliveredIsKept' /\ ReportedEquivocated'
<1> DEFINE as == AddVerifiedVote(voteSet, v, h)
<1>1. /\ voteSet' = as
      /\ delivered' = delivered \cup {<<v, h>>}
      /\ reported' = reported \cup {w \in {v} : ReturnsConflict(voteSet, v, h)}
  BY DEF AddVote
<1>2. VoteSetInv(voteSet) /\ VoteSetInv(as)
  BY AddVerifiedVoteInv DEF EInv, IInv
<1>3. /\ voteSet \in VoteSetType /\ as \in VoteSetType
      /\ delivered \subseteq Validators \X Hashes /\ reported \subseteq Validators
      /\ None \notin Hashes
  BY <1>2, HashAssumption DEF EInv, IInv, VoteSetInv, HistoryOK, Hashes
<1>4. /\ \A g \in Hashes :
           /\ voteSet.votesByBlock[g].votes \subseteq as.votesByBlock[g].votes
           /\ as.votesByBlock[g].votes \subseteq
                voteSet.votesByBlock[g].votes \cup {w \in {v} : g = h}
      /\ \A w \in Validators :
           \/ as.votes[w] = voteSet.votes[w]
           \/ w = v /\ as.votes[w] = h
           \/ as.votes[w] = as.maj23 /\ w \in as.votesByBlock[as.maj23].votes
                /\ as.maj23 \in Hashes
      /\ \/ IsDuplicate(voteSet, v, h)
         \/ ReturnsConflict(voteSet, v, h)
         \/ v \in as.votesByBlock[h].votes
  BY <1>2, AddVerifiedVoteKeeps
<1> HIDE DEF as
<1>5. \A g \in Hashes : \A w \in as.votesByBlock[g].votes : <<w, g>> \in delivered'
  BY <1>1, <1>4 DEF EInv, KeptWasDelivered, BlockVoters
<1>6. \A w \in Validators : as.votes[w] # None => <<w, as.votes[w]>> \in delivered'
  BY <1>1, <1>4, <1>5 DEF EInv, KeptWasDelivered
<1>7. KeptWasDelivered'
  BY <1>1, <1>5, <1>6 DEF KeptWasDelivered, BlockVoters
<1>8. v \in reported' \/ v \in as.votesByBlock[h].votes
  <2>1. CASE IsDuplicate(voteSet, v, h)
    <3>1. voteSet.votes[v] = h /\ h # None
      BY <1>3, <2>1 DEF IsDuplicate
    <3>2. <<v, h>> \in delivered
      BY <3>1 DEF EInv, KeptWasDelivered
    <3> QED
      BY <1>1, <1>4, <3>2 DEF EInv, DeliveredIsKept, BlockVoters
  <2>2. CASE ReturnsConflict(voteSet, v, h)
    BY <1>1, <2>2
  <2> QED
    BY <1>4, <2>1, <2>2
<1>9. DeliveredIsKept'
  <2> SUFFICES ASSUME NEW w \in Validators, NEW g \in Hashes, <<w, g>> \in delivered'
               PROVE  w \in reported' \/ w \in as.votesByBlock[g].votes
    BY <1>1 DEF DeliveredIsKept, BlockVoters
  <2>1. CASE <<w, g>> \in delivered
    BY <1>1, <1>4, <2>1 DEF EInv, DeliveredIsKept, BlockVoters
  <2>2. CASE w = v /\ g = h
    BY <1>8, <2>2
  <2> QED
    BY <1>1, <2>1, <2>2
<1>10. ReportedEquivocated'
  <2> SUFFICES ASSUME NEW w \in reported'
               PROVE  \E h1, h2 \in Hashes :
                        h1 # h2 /\ <<w, h1>> \in delivered' /\ <<w, h2>> \in delivered'
    BY DEF ReportedEquivocated
  <2>1. CASE w \in reported
    BY <1>1, <2>1 DEF EInv, ReportedEquivocated
  <2>2. CASE w = v /\ ReturnsConflict(voteSet, v, h)
    <3>1. voteSet.votes[v] # None /\ voteSet.votes[v] # h /\ voteSet.votes[v] \in Hashes
      BY <1>3, <2>2 DEF ReturnsConflict, IsConflicting, VoteSetType
    <3>2. <<v, voteSet.votes[v]>> \in delivered' /\ <<v, h>> \in delivered'
      BY <1>1, <3>1 DEF EInv, KeptWasDelivered
    <3> QED
      BY <2>2, <3>1, <3>2
  <2> QED
    BY <1>1, <2>1, <2>2
<1> QED
  BY <1>7, <1>9, <1>10

(* A claim changes neither the votes nor the history.                      *)
LEMMA ClaimEInv ==
  ASSUME EInv, NEW p \in Peers, NEW h \in Hashes, ClaimMaj23(p, h)
  PROVE  KeptWasDelivered' /\ DeliveredIsKept' /\ ReportedEquivocated'
<1>1. UNCHANGED <<delivered, reported>> /\ voteSet \in VoteSetType
  BY DEF ClaimMaj23, EInv, IInv, VoteSetInv
<1>2. /\ voteSet'.votes = voteSet.votes
      /\ \A g \in Hashes : voteSet'.votesByBlock[g].votes = voteSet.votesByBlock[g].votes
  BY <1>1 DEF ClaimMaj23, SetPeerMaj23, VoteSetType, BlockVotes
<1> QED
  BY <1>1, <1>2 DEF EInv, KeptWasDelivered, DeliveredIsKept, ReportedEquivocated, BlockVoters

LEMMA NextEInv == EInv /\ [Next]_vars => EInv'
<1> SUFFICES ASSUME EInv, [Next]_vars PROVE EInv'
  OBVIOUS
<1>1. IInv'
  BY NextIInv DEF EInv
<1>2. CASE \E v \in Validators, h \in Hashes : AddVote(v, h)
  BY <1>1, <1>2, AddVoteEInv DEF EInv
<1>3. CASE \E p \in Peers, h \in Hashes : ClaimMaj23(p, h)
  BY <1>1, <1>3, ClaimEInv DEF EInv
<1>4. CASE UNCHANGED vars
  BY <1>1, <1>4
     DEF vars, EInv, KeptWasDelivered, DeliveredIsKept, ReportedEquivocated, BlockVoters
<1> QED
  BY <1>2, <1>3, <1>4 DEF Next

(* Whatever the order of votes and claims, an equivocator's second vote is *)
(* counted or becomes evidence, and nobody else is reported.               *)
THEOREM EquivocationIsKept == Spec => []EquivocationKept
<1>1. EInv => EquivocationKept
  BY DEF EInv, DeliveredIsKept, EquivocationKept, SecondVotesKept
<1> QED
  BY <1>1, InitEInv, NextEInv, PTL DEF Spec
=============================================================================
