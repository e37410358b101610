-------------------------- MODULE VoteSetsProofs --------------------------
(***************************************************************************)
(* Lemmas about the operators on vote sets: the invariant that new, add    *)
(* and claim keep, and what each of them leaves alone.  VoteSetProofs and  *)
(* HeightVoteSetProofs rest on them.                                       *)
(***************************************************************************)
EXTENDS VoteSets, VotingPowerProofs

(* The inductive invariant, part by part, of a vote set vs.                *)
CountersOK(vs) ==
    /\ vs.votesBitArray = {v \in Validators : vs.votes[v] # None}
    /\ vs.sum = PowerOf(vs.votesBitArray)
    /\ \A h \in Hashes : vs.votesByBlock[h].sum = PowerOf(vs.votesByBlock[h].votes)

(* A vote counted for a block is also recorded as its validator's vote.    *)
BlockVotersRecorded(vs) ==
    \A h \in Hashes : vs.votesByBlock[h].votes \subseteq vs.votesBitArray

Maj23OK(vs) ==
    /\ vs.maj23 # None => IsQuorum(vs.votesByBlock[vs.maj23].votes)
    /\ vs.maj23 = None => \A h \in Hashes : ~ IsQuorum(vs.votesByBlock[h].votes)

(* The voters of the +2/3 hash keep that hash as their recorded vote.      *)
Maj23VotersAgree(vs) ==
    vs.maj23 # None =>
        \A v \in vs.votesByBlock[vs.maj23].votes : vs.votes[v] = vs.maj23

VoteSetInv(vs) ==
    /\ vs \in VoteSetType
    /\ CountersOK(vs)
    /\ BlockVotersRecorded(vs)
    /\ Maj23OK(vs)
    /\ Maj23VotersAgree(vs)

(* No validator: no power, no quorum.                                      *)
LEMMA PowerOfNobody == PowerOf({}) = 0 /\ ~ IsQuorum({})
<1>1. UNION {Shares(v) : v \in {}} = {}
  OBVIOUS
<1>2. PowerOf({}) = 0
  BY <1>1, FS_EmptySet, Zenon DEF PowerOf
<1>3. TwoThirds \in Nat
  BY QuorumIsTwoThirds
<1> QED
  BY <1>2, <1>3 DEF IsQuorum, Quorum

(* A new VoteSet satisfies the invariant.                                  *)
LEMMA EmptyVoteSetInv == VoteSetInv(EmptyVoteSet)
<1>1. EmptyVoteSet \in VoteSetType
  BY DEF EmptyVoteSet, VoteSetType, NoBlockVotes, BlockVotes
<1>2. CountersOK(EmptyVoteSet)
  BY PowerOfNobody DEF CountersOK, EmptyVoteSet, NoBlockVotes
<1>3. BlockVotersRecorded(EmptyVoteSet)
  BY DEF BlockVotersRecorded, EmptyVoteSet, NoBlockVotes
<1>4. Maj23OK(EmptyVoteSet)
  BY PowerOfNobody DEF Maj23OK, EmptyVoteSet, NoBlockVotes
<1>5. Maj23VotersAgree(EmptyVoteSet)
  BY DEF Maj23VotersAgree, EmptyVoteSet
<1> QED
  BY <1>1, <1>2, <1>3, <1>4, <1>5 DEF VoteSetInv

(* The first half of addVerifiedVote keeps the invariant, and records the  *)
(* validator.                                                              *)
LEMMA RecordVoteInv ==
  ASSUME NEW vs, VoteSetInv(vs), NEW v \in Validators, NEW h \in Hashes
  PROVE  LET rs == RecordVote(vs, v, h)
         IN  /\ VoteSetInv(rs)
             /\ rs.votesByBlock = vs.votesByBlock
             /\ rs.maj23 = vs.maj23
             /\ rs.peerMaj23s = vs.peerMaj23s
             /\ v \in rs.votesBitArray
<1> DEFINE rs == RecordVote(vs, v, h)
<1> USE DEF VoteSetInv, VoteSetType
<1>0. None \notin Hashes
  BY HashAssumption DEF Hashes
<1>1. CASE vs.votes[v] = None
  <2>1. rs = [vs EXCEPT !.votes[v] = h,
                        !.votesBitArray = @ \cup {v},
                        !.sum = @ + VotingPower[v]]
    BY <1>1 DEF RecordVote
  <2>2. v \notin vs.votesBitArray
    BY <1>1 DEF CountersOK
  <2>3. /\ PowerOf(vs.votesBitArray \cup {v}) = vs.sum + VotingPower[v]
        /\ VotingPower[v] \in Nat
    BY <2>2, PowerOfNewVoter, VotingPowerAssumption DEF CountersOK
  <2>4. rs \in VoteSetType
    <3>1. /\ [vs.votes EXCEPT ![v] = h] \in [Validators -> Hashes \cup {None}]
          /\ vs.votesBitArray \cup {v} \in SUBSET Validators
          /\ vs.sum + VotingPower[v] \in Nat
      BY <2>3
    <3> QED
      BY <2>1, <3>1
  <2>5. CountersOK(rs)
    BY <1>0, <2>1, <2>3 DEF CountersOK
  <2>6. BlockVotersRecorded(rs)
    BY <2>1 DEF BlockVotersRecorded
  <2>7. Maj23OK(rs)
    BY <2>1 DEF Maj23OK
  <2>8. Maj23VotersAgree(rs)
    BY <2>1, <2>2 DEF Maj23VotersAgree, BlockVotersRecorded
  <2> QED
    BY <2>1, <2>4, <2>5, <2>6, <2>7, <2>8
<1>2. CASE vs.votes[v] # None /\ vs.maj23 = h
  <2>1. rs = [vs EXCEPT !.votes[v] = h, !.votesBitArray = @ \cup {v}]
    BY <1>2 DEF RecordVote
  <2>2. v \in vs.votesBitArray
    BY <1>2 DEF CountersOK
  <2>3. vs.votesBitArray \cup {v} = vs.votesBitArray
    BY <2>2
  <2>4. rs \in VoteSetType
    <3>1. /\ [vs.votes EXCEPT ![v] = h] \in [Validators -> Hashes \cup {None}]
          /\ vs.votesBitArray \cup {v} \in SUBSET Validators
      OBVIOUS
    <3> QED
      BY <2>1, <3>1
  <2>5. CountersOK(rs)
    <3>1. /\ rs.votesBitArray = vs.votesBitArray
          /\ rs.sum = vs.sum
          /\ rs.votesByBlock = vs.votesByBlock
          /\ rs.votes = [vs.votes EXCEPT ![v] = h]
      BY <2>1, <2>3
    <3>2. {w \in Validators : rs.votes[w] # None}
            = {w \in Validators : vs.votes[w] # None}
      BY <1>0, <1>2, <3>1
    <3> QED
      BY <3>1, <3>2, Zenon DEF CountersOK
  <2>6. BlockVotersRecorded(rs)
    BY <2>1 DEF BlockVotersRecorded
  <2>7. Maj23OK(rs)
    BY <2>1 DEF Maj23OK
  <2>8. Maj23VotersAgree(rs)
    BY <1>2, <2>1 DEF Maj23VotersAgree
  <2> QED
    BY <2>1, <2>2, <2>4, <2>5, <2>6, <2>7, <2>8
<1>3. CASE vs.votes[v] # None /\ vs.maj23 # h
  <2>1. rs = vs
    BY <1>3 DEF RecordVote
  <2>2. v \in vs.votesBitArray
    BY <1>3 DEF CountersOK
  <2> QED
    BY <2>1, <2>2
<1> QED
  BY <1>1, <1>2, <1>3

(* The second half keeps the invariant for a vote of a recorded validator  *)
(* whose recorded vote is this hash once this hash has +2/3.               *)
LEMMA CountVoteInv ==
  ASSUME NEW vs, VoteSetInv(vs), NEW v \in Validators, NEW h \in Hashes,
         v \in vs.votesBitArray, vs.maj23 = h => vs.votes[v] = h
  PROVE  LET cs == CountVote(vs, v, h)
         IN  /\ VoteSetInv(cs)
             /\ vs.maj23 # None => cs.maj23 = vs.maj23
             /\ cs.peerMaj23s = vs.peerMaj23s
             /\ v \in cs.votesByBlock[h].votes
             /\ \A g \in Hashes :
                  vs.votesByBlock[g].votes \subseteq cs.votesByBlock[g].votes
<1> DEFINE cs == CountVote(vs, v, h)
           old == vs.votesByBlock[h]
           bv == AddToBlock(old, v)
           counted == [vs EXCEPT !.votesByBlock[h] = bv]
           crosses == old.sum < Quorum /\ Quorum <= bv.sum
<1>0. None \notin Hashes /\ h # None
  BY HashAssumption DEF Hashes
<1>1. /\ vs \in VoteSetType
      /\ CountersOK(vs) /\ BlockVotersRecorded(vs)
      /\ Maj23OK(vs) /\ Maj23VotersAgree(vs)
  BY DEF VoteSetInv
<1>2. /\ old \in BlockVotes /\ old.votes \in SUBSET Validators /\ old.sum \in Nat
      /\ old.sum = PowerOf(old.votes)
      /\ old.votes \subseteq vs.votesBitArray
  BY <1>1 DEF VoteSetType, BlockVotes, CountersOK, BlockVotersRecorded
<1>3. /\ bv \in BlockVotes
      /\ bv.votes = old.votes \cup {v}
      /\ bv.sum = PowerOf(bv.votes)
      /\ bv.sum \in Nat
  <2>1. CASE v \in old.votes
    <3>1. bv = old /\ old.votes \cup {v} = old.votes
      BY <2>1 DEF AddToBlock
    <3> QED
      BY <1>2, <3>1
  <2>2. CASE v \notin old.votes
    <3>1. bv = [old EXCEPT !.votes = @ \cup {v}, !.sum = @ + VotingPower[v]]
      BY <2>2 DEF AddToBlock
    <3>2. /\ PowerOf(old.votes \cup {v}) = old.sum + VotingPower[v]
          /\ VotingPower[v] \in Nat
      BY <1>2, <2>2, PowerOfNewVoter, VotingPowerAssumption
    <3>3. /\ old.votes \cup {v} \in SUBSET Validators
          /\ old.sum + VotingPower[v] \in Nat
      BY <1>2, <3>2
    <3>4. /\ bv \in BlockVotes
          /\ bv.votes = old.votes \cup {v}
          /\ bv.sum = old.sum + VotingPower[v]
      BY <1>2, <3>1, <3>3 DEF BlockVotes
    <3> QED
      BY <3>2, <3>3, <3>4
  <2> QED
    BY <2>1, <2>2
<1> HIDE DEF bv
<1>4. /\ bv.votes \in SUBSET Validators
      /\ bv.votes \subseteq vs.votesBitArray
      /\ v \in bv.votes
      /\ old.votes \subseteq bv.votes
  BY <1>2, <1>3
<1>5. /\ counted.votesByBlock = [vs.votesByBlock EXCEPT ![h] = bv]
      /\ counted.votes = vs.votes
      /\ counted.votesBitArray = vs.votesBitArray
      /\ counted.sum = vs.sum
      /\ counted.maj23 = vs.maj23
      /\ counted.peerMaj23s = vs.peerMaj23s
      /\ counted \in VoteSetType
  BY <1>1, <1>3 DEF VoteSetType
<1>6. /\ CountersOK(counted) /\ BlockVotersRecorded(counted)
      /\ \A g \in Hashes :
           vs.votesByBlock[g].votes \subseteq counted.votesByBlock[g].votes
      /\ v \in counted.votesByBlock[h].votes
  <2>1. \A g \in Hashes : counted.votesByBlock[g]
                             = IF g = h THEN bv ELSE vs.votesByBlock[g]
    BY <1>1, <1>5 DEF VoteSetType
  <2> HIDE DEF counted
  <2> QED
    BY <1>1, <1>3, <1>4, <1>5, <2>1 DEF CountersOK, BlockVotersRecorded
<1>7. \A g \in Hashes : counted.votesByBlock[g]
                         = IF g = h THEN bv ELSE vs.votesByBlock[g]
  BY <1>1, <1>5 DEF VoteSetType
<1>8. /\ IsQuorum(bv.votes) <=> Quorum <= bv.sum
      /\ IsQuorum(old.votes) <=> ~ (old.sum < Quorum)
  <2>1. Quorum \in Nat
    BY QuorumIsTwoThirds DEF Quorum
  <2> QED
    BY <1>2, <1>3, <1>4, <2>1 DEF IsQuorum
<1> HIDE DEF counted
<1>9. CASE crosses /\ vs.maj23 = None
  <2> DEFINE copied == [w \in Validators |->
                          IF w \in bv.votes THEN h ELSE counted.votes[w]]
  <2>1. cs = [counted EXCEPT !.maj23 = h, !.votes = copied]
    BY <1>9 DEF CountVote, CompletesMajority, counted, bv, old, crosses
  <2>2. copied \in [Validators -> Hashes \cup {None}]
    BY <1>5 DEF VoteSetType
  <2>3. /\ cs.votes = copied
        /\ cs.maj23 = h
        /\ cs.votesByBlock = counted.votesByBlock
        /\ cs.votesBitArray = counted.votesBitArray
        /\ cs.sum = counted.sum
        /\ cs.peerMaj23s = counted.peerMaj23s
        /\ cs \in VoteSetType
    BY <1>5, <2>1, <2>2 DEF VoteSetType
  <2>4. CountersOK(cs)
    <3>1. {w \in Validators : cs.votes[w] # None}
            = {w \in Validators : counted.votes[w] # None}
      <4>1. \A w \in Validators : copied[w] # None <=> counted.votes[w] # None
        BY <1>0, <1>4, <1>5, <1>6 DEF CountersOK
      <4> QED
        BY <2>3, <4>1
    <3> QED
      BY <1>6, <2>3, <3>1, Zenon DEF CountersOK
  <2>5. BlockVotersRecorded(cs)
    BY <1>6, <2>3 DEF BlockVotersRecorded
  <2>6. Maj23OK(cs)
    BY <1>0, <1>7, <1>8, <1>9, <2>3 DEF Maj23OK
  <2>7. Maj23VotersAgree(cs)
    BY <1>4, <1>7, <2>3 DEF Maj23VotersAgree
  <2> QED
    BY <1>5, <1>6, <1>9, <2>3, <2>4, <2>5, <2>6, <2>7 DEF VoteSetInv
<1>10. CASE ~ (crosses /\ vs.maj23 = None)
  <2>1. cs = counted
    BY <1>10 DEF CountVote, CompletesMajority, counted, bv, old, crosses
  <2>2. Maj23OK(counted)
    <3>1. CASE vs.maj23 = None
      <4>1. ~ IsQuorum(old.votes)
        BY <1>1, <3>1 DEF Maj23OK
      <4>2. ~ IsQuorum(bv.votes)
        BY <1>8, <1>10, <3>1, <4>1
      <4> QED
        BY <1>1, <1>5, <1>7, <3>1, <4>2 DEF Maj23OK
    <3>2. CASE vs.maj23 # None
      <4>1. vs.maj23 \in Hashes
        BY <1>1, <3>2 DEF VoteSetType
      <4>2. IsQuorum(counted.votesByBlock[vs.maj23].votes)
        <5>1. IsQuorum(vs.votesByBlock[vs.maj23].votes)
          BY <1>1, <3>2 DEF Maj23OK
        <5>2. CASE vs.maj23 = h
          BY <1>2, <1>4, <1>7, <4>1, <5>1, <5>2, QuorumMonotone
        <5>3. CASE vs.maj23 # h
          BY <1>7, <4>1, <5>1, <5>3
        <5> QED
          BY <5>2, <5>3
      <4> QED
        BY <1>5, <3>2, <4>2 DEF Maj23OK
    <3> QED
      BY <3>1, <3>2
  <2>3. Maj23VotersAgree(counted)
    <3> SUFFICES ASSUME vs.maj23 # None,
                        NEW w \in counted.votesByBlock[vs.maj23].votes
                 PROVE  vs.votes[w] = vs.maj23
      BY <1>5 DEF Maj23VotersAgree
    <3>1. vs.maj23 \in Hashes
      BY <1>1 DEF VoteSetType
    <3>2. w \in vs.votesByBlock[vs.maj23].votes \/ (vs.maj23 = h /\ w = v)
      BY <1>3, <1>7, <3>1
    <3> QED
      BY <1>1, <3>2 DEF Maj23VotersAgree
  <2> QED
    BY <1>5, <1>6, <2>1, <2>2, <2>3 DEF VoteSetInv
<1> QED
  BY <1>9, <1>10

(* addVerifiedVote as a whole: the two halves in the order the code runs   *)
(* them, with its early return and its throw in between.                   *)
LEMMA AddVerifiedVoteInv ==
  ASSUME NEW vs, VoteSetInv(vs), NEW v \in Validators, NEW h \in Hashes
  PROVE  LET as == AddVerifiedVote(vs, v, h)
         IN  /\ VoteSetInv(as)
             /\ vs.maj23 # None => as.maj23 = vs.maj23
<1> DEFINE rs == RecordVote(vs, v, h)
<1>1. /\ VoteSetInv(rs)
      /\ rs.maj23 = vs.maj23
      /\ v \in rs.votesBitArray
  BY RecordVoteInv
<1>2. rs.maj23 = h => rs.votes[v] = h
  BY HashAssumption DEF RecordVote, Hashes, VoteSetInv, VoteSetType
<1> HIDE DEF rs
<1>3. LET cs == CountVote(rs, v, h)
      IN  /\ VoteSetInv(cs)
          /\ rs.maj23 # None => cs.maj23 = rs.maj23
  BY <1>1, <1>2, CountVoteInv
<1> QED
  BY <1>1, <1>3 DEF AddVerifiedVote, rs

(* A peer's claim only marks a block's entry.                              *)
LEMMA SetPeerMaj23Inv ==
  ASSUME NEW vs, VoteSetInv(vs), NEW p \in Peers, NEW h \in Hashes
  PROVE  LET ps == SetPeerMaj23(vs, p, h)
         IN  VoteSetInv(ps) /\ ps.maj23 = vs.maj23
<1> DEFINE ps == SetPeerMaj23(vs, p, h)
           marked == [vs.votesByBlock EXCEPT ![h] = [@ EXCEPT !.peerMaj23 = TRUE]]
<1>1. CASE vs.peerMaj23s[p] # None
  BY <1>1 DEF SetPeerMaj23
<1>2. CASE vs.peerMaj23s[p] = None
  <2>1. ps = [vs EXCEPT !.peerMaj23s[p] = h, !.votesByBlock[h].peerMaj23 = TRUE]
    BY <1>2 DEF SetPeerMaj23
  <2>2. \A g \in Hashes : /\ vs.votesByBlock[g] \in BlockVotes
                          /\ marked[g] \in BlockVotes
                          /\ marked[g].votes = vs.votesByBlock[g].votes
                          /\ marked[g].sum = vs.votesByBlock[g].sum
    BY DEF VoteSetInv, VoteSetType, BlockVotes
  <2>3. /\ marked \in [Hashes -> BlockVotes]
        /\ [vs.peerMaj23s EXCEPT ![p] = h] \in [Peers -> Hashes \cup {None}]
    BY <2>2 DEF VoteSetInv, VoteSetType
  <2>4. /\ ps \in VoteSetType
        /\ ps.votesByBlock = marked
        /\ ps.votes = vs.votes
        /\ ps.votesBitArray = vs.votesBitArray
        /\ ps.sum = vs.sum
        /\ ps.maj23 = vs.maj23
    BY <2>1, <2>3 DEF VoteSetInv, VoteSetType
  <2> HIDE DEF marked
  <2>5. CountersOK(ps) /\ BlockVotersRecorded(ps)
    BY <2>2, <2>4 DEF VoteSetInv, CountersOK, BlockVotersRecorded
  <2>6. Maj23OK(ps) /\ Maj23VotersAgree(ps)
    BY <2>2, <2>4 DEF VoteSetInv, VoteSetType, Maj23OK, Maj23VotersAgree
  <2> QED
    BY <2>4, <2>5, <2>6 DEF VoteSetInv
<1> QED
  BY <1>1, <1>2

(* What addVerifiedVote may change: it only adds to the votes recorded and *)
(* to the votes of the blocks, for a block only the vote it was called     *)
(* with, and what becomes a validator's recorded vote is that vote or one  *)
(* its block has counted.                                                  *)
LEMMA AddVerifiedVoteKeeps ==
  ASSUME NEW vs, VoteSetInv(vs), NEW v \in Validators, NEW h \in Hashes
  PROVE  LET as == AddVerifiedVote(vs, v, h)
         IN  /\ vs.votesBitArray \subseteq as.votesBitArray
             /\ \A g \in Hashes :
                  /\ vs.votesByBlock[g].votes \subseteq as.votesByBlock[g].votes
                  /\ as.votesByBlock[g].votes \subseteq
                       vs.votesByBlock[g].votes \cup {w \in {v} : g = h}
             /\ \A w \in Validators :
                  \/ as.votes[w] = vs.votes[w]
                  \/ w = v /\ as.votes[w] = h
                  \/ as.votes[w] = as.maj23 /\ w \in as.votesByBlock[as.maj23].votes
                       /\ as.maj23 \in Hashes
             /\ \/ IsDuplicate(vs, v, h)
                \/ ReturnsConflict(vs, v, h)
                \/ v \in as.votesByBlock[h].votes
<1> DEFINE as == AddVerifiedVote(vs, v, h)
           rs == RecordVote(vs, v, h)
           bv == AddToBlock(rs.votesByBlock[h], v)
           counted == [rs EXCEPT !.votesByBlock[h] = bv]
<1>1. /\ vs \in VoteSetType /\ rs \in VoteSetType
      /\ rs.votesByBlock = vs.votesByBlock
      /\ v \in rs.votesBitArray
  BY RecordVoteInv DEF VoteSetInv
<1>2. /\ vs.votesBitArray \subseteq rs.votesBitArray
      /\ \A w \in Validators : rs.votes[w] = vs.votes[w] \/ (w = v /\ rs.votes[w] = h)
  BY <1>1 DEF RecordVote, VoteSetType
<1>3. CASE IsDuplicate(vs, v, h)
  BY <1>3 DEF AddVerifiedVote
<1>4. CASE ~ IsDuplicate(vs, v, h) /\ ReturnsConflict(vs, v, h)
  <2>1. as = rs
    BY <1>4 DEF AddVerifiedVote
  <2> QED
    BY <1>1, <1>2, <1>4, <2>1
<1>5. CASE ~ IsDuplicate(vs, v, h) /\ ~ ReturnsConflict(vs, v, h)
  <2>1. as = CountVote(rs, v, h)
    BY <1>5 DEF AddVerifiedVote
  <2>2. bv.votes = vs.votesByBlock[h].votes \cup {v}
    BY <1>1 DEF AddToBlock, VoteSetType, BlockVotes
  <2> HIDE DEF bv, rs
  <2>3. /\ counted.votesBitArray = rs.votesBitArray
        /\ counted.votes = rs.votes
        /\ \A g \in Hashes : counted.votesByBlock[g]
                              = IF g = h THEN bv ELSE vs.votesByBlock[g]
    BY <1>1 DEF VoteSetType
  <2>4. \/ as = counted
        \/ as = [counted EXCEPT
                   !.maj23 = h,
                   !.votes = [w \in Validators |-> IF w \in bv.votes THEN h ELSE @[w]]]
    BY <2>1 DEF CountVote, bv
  <2>5. counted \in [votesBitArray : {rs.votesBitArray}, votes : {rs.votes},
                     sum : {rs.sum}, maj23 : {rs.maj23},
                     votesByBlock : {counted.votesByBlock}, peerMaj23s : {rs.peerMaj23s}]
    BY <1>1 DEF VoteSetType
  <2> HIDE DEF counted
  <2>6. /\ as.votesBitArray = rs.votesBitArray
        /\ as.votesByBlock = counted.votesByBlock
        /\ \A w \in Validators : \/ as.votes[w] = rs.votes[w]
                                 \/ as.votes[w] = h /\ as.maj23 = h /\ w \in bv.votes
    <3>1. CASE as = counted
      BY <2>3, <3>1
    <3>2. CASE as = [counted EXCEPT
                   !.maj23 = h,
                   !.votes = [w \in Validators |-> IF w \in bv.votes THEN h ELSE @[w]]]
      BY <2>3, <2>5, <3>2
    <3> QED
      BY <2>4, <3>1, <3>2
  <2> QED
    BY <1>2, <2>2, <2>3, <2>6
<1> QED
  BY <1>3, <1>4, <1>5

-----------------------------------------------------------------------------
(* The vote sets of the rounds of a height.                                *)

(* The height vote sets with rounds among R that peers among P have opened *)
(* rounds of.                                                              *)
HeightVoteSets(R, P) ==
    [round : R,
     roundVoteSets : UNION {[S -> [VoteTypes -> VoteSetType]] : S \in SUBSET R},
     peerCatchupRounds : UNION {[S -> SUBSET R] : S \in SUBSET P}]

VoteSetsOK(s) == \A r \in Rounds(s), t \in VoteTypes : VoteSetInv(s.roundVoteSets[r][t])

(* No vote set of s is lost in t, and each keeps its votes and its +2/3.   *)
KeepsVotes(s, t) ==
    /\ Rounds(s) \subseteq Rounds(t)
    /\ \A r \in Rounds(s), y \in VoteTypes :
         /\ s.roundVoteSets[r][y].votesBitArray \subseteq t.roundVoteSets[r][y].votesBitArray
         /\ s.roundVoteSets[r][y].maj23 # None =>
              t.roundVoteSets[r][y].maj23 = s.roundVoteSets[r][y].maj23

(* AddRounds opens vote sets and touches none that is open.                *)
LEMMA AddRoundsType ==
  ASSUME NEW All, NEW P, NEW s \in HeightVoteSets(All, P), VoteSetsOK(s),
         NEW R \in SUBSET All
  PROVE  LET t == AddRounds(s, R)
         IN  /\ t \in HeightVoteSets(All, P)
             /\ Rounds(t) = Rounds(s) \cup R
             /\ t.round = s.round
             /\ t.peerCatchupRounds = s.peerCatchupRounds
             /\ VoteSetsOK(t)
             /\ KeepsVotes(s, t)
             /\ \A r \in All, y \in VoteTypes : GetVoteSet(t, r, y) = GetVoteSet(s, r, y)
<1> DEFINE t == AddRounds(s, R)
           sets == [r \in Rounds(s) \cup R |->
                      IF r \in Rounds(s) THEN s.roundVoteSets[r] ELSE NewRoundVoteSet]
<1>1. t = [s EXCEPT !.roundVoteSets = sets]
  BY DEF AddRounds
<1>2. NewRoundVoteSet \in [VoteTypes -> VoteSetType]
  BY EmptyVoteSetInv DEF NewRoundVoteSet, VoteSetInv
<1>3. /\ Rounds(s) \in SUBSET All
      /\ s.roundVoteSets \in [Rounds(s) -> [VoteTypes -> VoteSetType]]
  BY DEF HeightVoteSets, Rounds
<1>4. /\ sets \in [Rounds(s) \cup R -> [VoteTypes -> VoteSetType]]
      /\ Rounds(s) \cup R \in SUBSET All
      /\ DOMAIN sets = Rounds(s) \cup R
      /\ \A r \in Rounds(s) : sets[r] = s.roundVoteSets[r]
      /\ \A r \in R \ Rounds(s) : sets[r] = NewRoundVoteSet
  BY <1>2, <1>3
<1> HIDE DEF sets
<1>5. /\ t \in HeightVoteSets(All, P)
      /\ t.roundVoteSets = sets /\ t.round = s.round
      /\ t.peerCatchupRounds = s.peerCatchupRounds
  BY <1>1, <1>4 DEF HeightVoteSets
<1>6. Rounds(t) = Rounds(s) \cup R
  BY <1>4, <1>5 DEF Rounds
<1> HIDE DEF t
<1>7. VoteSetsOK(t)
  BY <1>4, <1>5, <1>6, EmptyVoteSetInv DEF VoteSetsOK, NewRoundVoteSet
<1>8. KeepsVotes(s, t)
  BY <1>4, <1>5, <1>6 DEF KeepsVotes
<1>9. \A r \in All, y \in VoteTypes : GetVoteSet(t, r, y) = GetVoteSet(s, r, y)
  BY <1>4, <1>5, <1>6 DEF GetVoteSet, NewRoundVoteSet
<1> QED
  BY <1>5, <1>6, <1>7, <1>8, <1>9 DEF t

(* One vote set is replaced by one that keeps its votes.                   *)
LEMMA ReplaceType ==
  ASSUME NEW All, NEW P, NEW s \in HeightVoteSets(All, P), VoteSetsOK(s),
         NEW r \in Rounds(s), NEW y \in VoteTypes, NEW vs, VoteSetInv(vs),
         s.roundVoteSets[r][y].votesBitArray \subseteq vs.votesBitArray,
         s.roundVoteSets[r][y].maj23 # None => vs.maj23 = s.roundVoteSets[r][y].maj23
  PROVE  LET t == [s EXCEPT !.roundVoteSets[r][y] = vs]
         IN  /\ t \in HeightVoteSets(All, P)
             /\ Rounds(t) = Rounds(s)
             /\ t.round = s.round
             /\ t.peerCatchupRounds = s.peerCatchupRounds
             /\ VoteSetsOK(t)
             /\ KeepsVotes(s, t)
<1> DEFINE t == [s EXCEPT !.roundVoteSets[r][y] = vs]
           sets == [s.roundVoteSets EXCEPT ![r] = [@ EXCEPT ![y] = vs]]
<1>1. /\ Rounds(s) \in SUBSET All
      /\ s.roundVoteSets \in [Rounds(s) -> [VoteTypes -> VoteSetType]]
      /\ vs \in VoteSetType
  BY DEF HeightVoteSets, Rounds, VoteSetInv
<1>2. /\ sets \in [Rounds(s) -> [VoteTypes -> VoteSetType]]
      /\ DOMAIN sets = Rounds(s)
      /\ \A q \in Rounds(s), z \in VoteTypes :
           sets[q][z] = IF q = r /\ z = y THEN vs ELSE s.roundVoteSets[q][z]
  BY <1>1
<1>3. t = [s EXCEPT !.roundVoteSets = sets]
  OBVIOUS
<1> HIDE DEF sets, t
<1>4. /\ t \in HeightVoteSets(All, P)
      /\ t.roundVoteSets = sets /\ t.round = s.round
      /\ t.peerCatchupRounds = s.peerCatchupRounds
  BY <1>1, <1>2, <1>3 DEF HeightVoteSets
<1>5. Rounds(t) = Rounds(s)
  BY <1>2, <1>4 DEF Rounds
<1>6. VoteSetsOK(t)
  BY <1>2, <1>4, <1>5 DEF VoteSetsOK
<1>7. KeepsVotes(s, t)
  BY <1>2, <1>4, <1>5 DEF KeepsVotes
<1> QED
  BY <1>4, <1>5, <1>6, <1>7 DEF t
(* The votes of round r for h, none if the round is not open.              *)
VotersOf(s, r, y, h) == GetVoteSet(s, r, y).votesByBlock[h].votes

(* Of an open round or not, a vote set satisfies the invariant.            *)
LEMMA GetVoteSetInv ==
  ASSUME NEW s, VoteSetsOK(s), NEW r, NEW y \in VoteTypes
  PROVE  VoteSetInv(GetVoteSet(s, r, y))
  BY EmptyVoteSetInv DEF GetVoteSet, VoteSetsOK

(* setRound opens vote sets, or throws.                                    *)
LEMMA SetRoundType ==
  ASSUME NEW N \in Nat, NEW P, NEW s \in HeightVoteSets(0 .. N, P), VoteSetsOK(s),
         NEW q \in 0 .. N
  PROVE  LET t == SetRound(s, q)
         IN  /\ t \in HeightVoteSets(0 .. N, P)
             /\ VoteSetsOK(t)
             /\ \A r \in 0 .. N, y \in VoteTypes : GetVoteSet(t, r, y) = GetVoteSet(s, r, y)
<1> DEFINE t == SetRound(s, q)
           a == AddRounds(s, s.round .. q)
<1>1. CASE SetRoundFails(s, q)
  BY <1>1 DEF SetRound
<1>2. CASE ~ SetRoundFails(s, q)
  <2>1. s.round .. q \in SUBSET (0 .. N)
    BY DEF HeightVoteSets
  <2>2. /\ a \in HeightVoteSets(0 .. N, P)
        /\ VoteSetsOK(a)
        /\ \A r \in 0 .. N, y \in VoteTypes : GetVoteSet(a, r, y) = GetVoteSet(s, r, y)
    <3> DEFINE All == 0 .. N
               R == s.round .. q
    <3>1. s \in HeightVoteSets(All, P) /\ R \in SUBSET All
      BY <2>1
    <3> HIDE DEF All, R
    <3>2. LET u == AddRounds(s, R)
          IN  /\ u \in HeightVoteSets(All, P)
              /\ VoteSetsOK(u)
              /\ \A r \in All, y \in VoteTypes : GetVoteSet(u, r, y) = GetVoteSet(s, r, y)
      BY <3>1, AddRoundsType
    <3> QED
      BY <3>2 DEF All, R
  <2>3. t = [a EXCEPT !.round = q]
    BY <1>2 DEF SetRound
  <2> HIDE DEF a, t
  <2>4. t \in HeightVoteSets(0 .. N, P) /\ t.roundVoteSets = a.roundVoteSets
    BY <2>2, <2>3 DEF HeightVoteSets
  <2> QED
    BY <2>2, <2>4 DEF VoteSetsOK, GetVoteSet, Rounds, t
<1> QED
  BY <1>1, <1>2

(* A vote for an unknown round opens it.                                   *)
LEMMA OpenRoundType ==
  ASSUME NEW All, NEW P, NEW s \in HeightVoteSets(All, P), VoteSetsOK(s),
         NEW r \in All, NEW p \in P
  PROVE  LET t == OpenRound(s, r, p)
         IN  /\ t \in HeightVoteSets(All, P)
             /\ VoteSetsOK(t)
             /\ r \in Rounds(t)
             /\ \A q \in All, y \in VoteTypes : GetVoteSet(t, q, y) = GetVoteSet(s, q, y)
<1> DEFINE t == OpenRound(s, r, p)
           a == AddRounds(s, {r})
           old == s.peerCatchupRounds
           opened == [q \in DOMAIN old \cup {p} |->
                        IF q = p THEN CatchupRounds(s, p) \cup {r} ELSE old[q]]
<1>1. CASE r \in Rounds(s)
  BY <1>1 DEF OpenRound
<1>2. CASE r \notin Rounds(s)
  <2>1. /\ a \in HeightVoteSets(All, P)
        /\ VoteSetsOK(a)
        /\ Rounds(a) = Rounds(s) \cup {r}
        /\ a.peerCatchupRounds = old
        /\ \A q \in All, y \in VoteTypes : GetVoteSet(a, q, y) = GetVoteSet(s, q, y)
    BY AddRoundsType
  <2>2. DOMAIN old \in SUBSET P /\ \A q \in DOMAIN old : old[q] \in SUBSET All
    BY DEF HeightVoteSets
  <2>3. opened \in [DOMAIN old \cup {p} -> SUBSET All] /\ DOMAIN old \cup {p} \in SUBSET P
    BY <2>2 DEF CatchupRounds
  <2>4. t = [a EXCEPT !.peerCatchupRounds = opened]
    BY <1>2, <2>1 DEF OpenRound
  <2> HIDE DEF a, t, opened
  <2>5. t \in HeightVoteSets(All, P) /\ t.roundVoteSets = a.roundVoteSets
    BY <2>1, <2>3, <2>4 DEF HeightVoteSets
  <2> QED
    BY <2>1, <2>5 DEF VoteSetsOK, GetVoteSet, Rounds, t
<1> QED
  BY <1>1, <1>2

(* HeightVoteSet.addVote adds at most the vote it was called with, takes   *)
(* no vote back and changes no +2/3.                                       *)
LEMMA AddVoteFromType ==
  ASSUME NEW All, NEW P, NEW s \in HeightVoteSets(All, P), VoteSetsOK(s),
         NEW r \in All, NEW y \in VoteTypes, NEW v \in Validators, NEW h \in Hashes,
         NEW p \in P
  PROVE  LET t == AddVoteFrom(s, r, y, v, h, p)
         IN  /\ t \in HeightVoteSets(All, P)
             /\ VoteSetsOK(t)
             /\ \A q \in All, z \in VoteTypes :
                  /\ GetVoteSet(s, q, z).maj23 # None =>
                       GetVoteSet(t, q, z).maj23 = GetVoteSet(s, q, z).maj23
                  /\ \A g \in Hashes :
                       /\ VotersOf(s, q, z, g) \subseteq VotersOf(t, q, z, g)
                       /\ VotersOf(t, q, z, g) \subseteq
                            VotersOf(s, q, z, g) \cup {w \in {v} : q = r /\ z = y /\ g = h}
<1> DEFINE t == AddVoteFrom(s, r, y, v, h, p)
           o == OpenRound(s, r, p)
           old == o.roundVoteSets[r][y]
           vs == AddVerifiedVote(old, v, h)
<1>1. CASE IsUnwantedRound(s, r, p)
  BY <1>1 DEF AddVoteFrom
<1>2. CASE ~ IsUnwantedRound(s, r, p)
  <2>1. /\ o \in HeightVoteSets(All, P) /\ VoteSetsOK(o) /\ r \in Rounds(o)
        /\ \A q \in All, z \in VoteTypes : GetVoteSet(o, q, z) = GetVoteSet(s, q, z)
    BY OpenRoundType
  <2>2. t = [o EXCEPT !.roundVoteSets[r][y] = vs]
    BY <1>2 DEF AddVoteFrom
  <2> HIDE DEF o, t
  <2>3. VoteSetInv(old)
    BY <2>1 DEF VoteSetsOK
  <2>4. old = GetVoteSet(o, r, y)
    BY <2>1 DEF GetVoteSet
  <2> HIDE DEF old
  <2>5. /\ VoteSetInv(vs)
        /\ old.maj23 # None => vs.maj23 = old.maj23
        /\ old.votesBitArray \subseteq vs.votesBitArray
        /\ \A g \in Hashes :
             /\ old.votesByBlock[g].votes \subseteq vs.votesByBlock[g].votes
             /\ vs.votesByBlock[g].votes \subseteq
                  old.votesByBlock[g].votes \cup {w \in {v} : g = h}
    BY <2>3, AddVerifiedVoteInv, AddVerifiedVoteKeeps
  <2> HIDE DEF vs
  <2>6. /\ t \in HeightVoteSets(All, P) /\ VoteSetsOK(t) /\ Rounds(t) = Rounds(o)
    BY <2>1, <2>2, <2>5, ReplaceType DEF old
  <2>7. \A q \in Rounds(o), z \in VoteTypes :
          t.roundVoteSets[q][z] = IF q = r /\ z = y THEN vs ELSE o.roundVoteSets[q][z]
    BY <2>1, <2>2 DEF HeightVoteSets, Rounds
  <2>8. \A q \in All, z \in VoteTypes :
          GetVoteSet(t, q, z) = IF q = r /\ z = y THEN vs ELSE GetVoteSet(s, q, z)
    BY <2>1, <2>6, <2>7 DEF GetVoteSet
  <2>9. old = GetVoteSet(s, r, y)
    BY <2>1, <2>4
  <2> QED
    BY <2>5, <2>6, <2>8, <2>9 DEF VotersOf, t
<1> QED
  BY <1>1, <1>2
=============================================================================
