------------------------ MODULE HeightVoteSetProofs ------------------------
(***************************************************************************)
(* Proofs about the vote sets of the rounds of a height, for any peers,    *)
(* validators and rounds: the rounds that are open are the ones the node   *)
(* needs and two per peer, and no step loses a vote or a +2/3.             *)
(***************************************************************************)
EXTENDS HeightVoteSet, VoteSetsProofs, WellFoundedInduction

-----------------------------------------------------------------------------
(* A set of rounds up to n has a greatest one: that whose distance from n  *)
(* is least.                                                               *)
LEMMA GreatestRound ==
  ASSUME NEW n \in Nat, NEW T \in SUBSET (0 .. n), T # {}
  PROVE  \E x \in T : \A y \in T : y <= x
<1> DEFINE Distances == {n - x : x \in T}
<1>1. Distances \in SUBSET Nat /\ Distances # {}
  <2>1. ASSUME NEW x \in T PROVE n - x \in Nat
    OBVIOUS
  <2> QED
    BY <2>1
<1>2. PICK Less : /\ IsWellFoundedOn(Less, Nat)
                  /\ \A x, y \in Nat : y < x => <<y, x>> \in Less
  <2>1. \A x, y \in Nat : y < x => <<y, x>> \in OpToRel(<, Nat)
    BY DEF OpToRel
  <2> QED
    BY <2>1, NatLessThanWellFounded, Zenon
<1> HIDE DEF Distances
<1>3. PICK d \in Distances : \A e \in Distances : ~ (<<e, d>> \in Less)
  BY <1>1, <1>2, WFMin
<1>4. \A e \in Distances : ~ (e < d)
  BY <1>1, <1>2, <1>3
<1>5. PICK x \in T : d = n - x
  BY DEF Distances
<1>6. ASSUME NEW y \in T PROVE y <= x
  <2>1. n - y \in Distances
    BY DEF Distances
  <2> QED
    BY <1>4, <1>5, <2>1
<1> QED
  BY <1>6

-----------------------------------------------------------------------------
AllRounds == 0 .. MaxRound + 1

HeightVoteSetType == HeightVoteSets(AllRounds, Peers)

(* The rounds that exist: up to the next one, and what peers have opened,  *)
(* two rounds each; the peer '' of the node's own votes has opened none.   *)
RoundsOK(s) ==
    /\ s.round > 0 => 0 .. s.round \subseteq Rounds(s)
    /\ Rounds(s) \subseteq
         0 .. s.round \cup UNION {s.peerCatchupRounds[p] : p \in DOMAIN s.peerCatchupRounds}
    /\ \A p \in DOMAIN s.peerCatchupRounds :
         Cardinality(s.peerCatchupRounds[p]) <= MaxCatchupRounds

HeightInv(s) == s \in HeightVoteSetType /\ RoundsOK(s) /\ VoteSetsOK(s)

IInv ==
    /\ round \in -1 .. MaxRound
    /\ hvs.round = round + 1
    /\ HeightInv(hvs)

-----------------------------------------------------------------------------
(* POLInfo returns -1 or the greatest of the rounds with a polka, and that *)
(* round does not decrease while votes are kept and the round moves on.    *)
LEMMA POLRoundKept ==
  ASSUME NEW s \in HeightVoteSetType, NEW t \in HeightVoteSetType,
         KeepsVotes(s, t), s.round <= t.round
  PROVE  POLRound(t) >= POLRound(s)
<1> DEFINE Polkas(u) == {r \in Rounds(u) :
             /\ r <= u.round
             /\ HasTwoThirdsMajority(u.roundVoteSets[r]["prevotes"])}
<1>1. \A u \in HeightVoteSetType :
        /\ Polkas(u) \in SUBSET AllRounds
        /\ Polkas(u) = {} => POLRound(u) = -1
        /\ Polkas(u) # {} => /\ POLRound(u) \in Polkas(u)
                             /\ \A q \in Polkas(u) : q <= POLRound(u)
  <2> SUFFICES ASSUME NEW u \in HeightVoteSetType
               PROVE  /\ Polkas(u) \in SUBSET AllRounds
                      /\ Polkas(u) = {} => POLRound(u) = -1
                      /\ Polkas(u) # {} => /\ POLRound(u) \in Polkas(u)
                                           /\ \A q \in Polkas(u) : q <= POLRound(u)
    OBVIOUS
  <2>1. POLRound(u) = IF Polkas(u) = {} THEN -1
                      ELSE CHOOSE r \in Polkas(u) : \A q \in Polkas(u) : q <= r
    BY DEF POLRound
  <2>2. Polkas(u) \in SUBSET AllRounds
    BY DEF HeightVoteSetType, HeightVoteSets, Rounds
  <2> HIDE DEF Polkas
  <2>3. Polkas(u) # {} => \E r \in Polkas(u) : \A q \in Polkas(u) : q <= r
    <3>1. MaxRound + 1 \in Nat /\ Polkas(u) \in SUBSET (0 .. MaxRound + 1)
      BY <2>2, HeightVoteSetAssumption DEF AllRounds
    <3> QED
      BY <3>1, GreatestRound, Zenon
  <2> QED
    BY <2>1, <2>2, <2>3
<1>2. Polkas(s) \subseteq Polkas(t)
  BY DEF KeepsVotes, HasTwoThirdsMajority, VoteTypes, HeightVoteSetType, HeightVoteSets, AllRounds, Rounds
<1> HIDE DEF Polkas
<1>3. Polkas(s) # {} => Polkas(t) # {} /\ POLRound(s) \in Polkas(t)
  BY <1>1, <1>2
<1>4. POLRound(t) \in AllRounds \cup {-1} /\ POLRound(s) \in AllRounds \cup {-1}
  BY <1>1
<1> QED
  BY <1>1, <1>3, <1>4, HeightVoteSetAssumption DEF AllRounds

(* A new height vote set satisfies the invariant.                          *)
LEMMA InitIInv == Init => IInv
<1> SUFFICES ASSUME Init PROVE IInv
  OBVIOUS
<1>1. /\ hvs.round = 0 /\ round = -1
      /\ Rounds(hvs) = {} /\ DOMAIN hvs.peerCatchupRounds = {}
  BY DEF Init, EmptyHeightVoteSet, Rounds
<1>2. hvs \in HeightVoteSetType
  <2>1. [r \in {} |-> NewRoundVoteSet] \in [{} -> [VoteTypes -> VoteSetType]]
    OBVIOUS
  <2>2. [p \in {} |-> {}] \in [{} -> SUBSET AllRounds]
    OBVIOUS
  <2>3. 0 \in AllRounds /\ {} \in SUBSET AllRounds /\ {} \in SUBSET Peers
    BY HeightVoteSetAssumption DEF AllRounds
  <2> QED
    BY <2>1, <2>2, <2>3 DEF Init, EmptyHeightVoteSet, HeightVoteSetType, HeightVoteSets
<1>3. RoundsOK(hvs) /\ VoteSetsOK(hvs)
  BY <1>1 DEF RoundsOK, VoteSetsOK
<1> QED
  BY <1>1, <1>2, <1>3, HeightVoteSetAssumption DEF IInv, HeightInv

(* A vote for a round that has no vote set opens it on the account of its  *)
(* peer, if that has not opened two.                                       *)
LEMMA OpenRoundInv ==
  ASSUME NEW s, HeightInv(s), NEW r \in AllRounds, NEW p \in Peers \cup {Local},
         ~ IsUnwantedRound(s, r, p), p = Local => r \in Rounds(s)
  PROVE  LET t == OpenRound(s, r, p)
         IN  HeightInv(t) /\ t.round = s.round /\ r \in Rounds(t) /\ KeepsVotes(s, t)
<1> DEFINE t == OpenRound(s, r, p)
<1>1. s \in HeightVoteSetType /\ RoundsOK(s) /\ VoteSetsOK(s)
  BY DEF HeightInv
<1>2. CASE r \in Rounds(s)
  BY <1>1, <1>2 DEF OpenRound, KeepsVotes
<1>3. CASE r \notin Rounds(s)
  <2> DEFINE a == AddRounds(s, {r})
             old == s.peerCatchupRounds
             opened == [q \in DOMAIN old \cup {p} |->
                          IF q = p THEN CatchupRounds(s, p) \cup {r} ELSE old[q]]
  <2>1. /\ a \in HeightVoteSetType
        /\ Rounds(a) = Rounds(s) \cup {r}
        /\ a.round = s.round
        /\ a.peerCatchupRounds = old
        /\ VoteSetsOK(a)
        /\ KeepsVotes(s, a)
    BY <1>1, AddRoundsType DEF HeightVoteSetType
  <2>2. p \in Peers
    BY <1>3
  <2>3. /\ DOMAIN old \in SUBSET Peers
        /\ \A q \in DOMAIN old : old[q] \in SUBSET AllRounds
    BY <1>1 DEF HeightVoteSetType, HeightVoteSets
  <2>4. /\ CatchupRounds(s, p) \in SUBSET AllRounds
        /\ Cardinality(CatchupRounds(s, p)) <= 1
        /\ IsFiniteSet(CatchupRounds(s, p))
        /\ Cardinality(CatchupRounds(s, p)) \in Nat
    <3>1. CatchupRounds(s, p) \in SUBSET AllRounds
      BY <2>3 DEF CatchupRounds
    <3>2. IsFiniteSet(AllRounds)
      BY HeightVoteSetAssumption, FS_Interval DEF AllRounds
    <3>3. IsFiniteSet(CatchupRounds(s, p)) /\ Cardinality(CatchupRounds(s, p)) \in Nat
      BY <3>1, <3>2, FS_Subset, FS_CardinalityType
    <3> QED
      BY <1>3, <3>1, <3>3 DEF IsUnwantedRound, MaxCatchupRounds
  <2>5. Cardinality(CatchupRounds(s, p) \cup {r}) <= MaxCatchupRounds
    <3>1. \/ Cardinality(CatchupRounds(s, p) \cup {r}) = Cardinality(CatchupRounds(s, p))
          \/ Cardinality(CatchupRounds(s, p) \cup {r}) = Cardinality(CatchupRounds(s, p)) + 1
      BY <2>4, FS_AddElement
    <3> QED
      BY <2>4, <3>1 DEF MaxCatchupRounds
  <2>6. /\ opened \in [DOMAIN old \cup {p} -> SUBSET AllRounds]
        /\ DOMAIN old \cup {p} \in SUBSET Peers
    BY <2>2, <2>3, <2>4
  <2>7. t = [a EXCEPT !.peerCatchupRounds = opened]
    BY <1>3, <2>1 DEF OpenRound
  <2> HIDE DEF a, t
  <2>8. /\ t \in HeightVoteSetType
        /\ t.round = s.round /\ t.roundVoteSets = a.roundVoteSets
        /\ t.peerCatchupRounds = opened
    <3> HIDE DEF opened, old
    <3> QED
      BY <2>1, <2>6, <2>7 DEF HeightVoteSetType, HeightVoteSets
  <2>9. Rounds(t) = Rounds(s) \cup {r}
    BY <2>1, <2>8 DEF Rounds
  <2>10. RoundsOK(t)
    <3>1. \A q \in DOMAIN opened : Cardinality(opened[q]) <= MaxCatchupRounds
      BY <1>1, <2>5 DEF RoundsOK
    <3>2. /\ UNION {old[q] : q \in DOMAIN old} \subseteq UNION {opened[q] : q \in DOMAIN opened}
          /\ r \in UNION {opened[q] : q \in DOMAIN opened}
      <4>1. DOMAIN opened = DOMAIN old \cup {p}
        OBVIOUS
      <4>2. \A q \in DOMAIN old : old[q] \subseteq opened[q]
        BY DEF CatchupRounds
      <4>3. r \in opened[p]
        OBVIOUS
      <4> HIDE DEF opened
      <4> QED
        BY <4>1, <4>2, <4>3
    <3> HIDE DEF opened
    <3> QED
      BY <1>1, <2>8, <2>9, <3>1, <3>2 DEF RoundsOK
  <2>11. VoteSetsOK(t) /\ KeepsVotes(s, t)
    BY <2>1, <2>8, <2>9 DEF VoteSetsOK, KeepsVotes, Rounds
  <2> QED
    BY <2>8, <2>9, <2>10, <2>11 DEF HeightInv, t
<1> QED
  BY <1>2, <1>3

(* HeightVoteSet.addVote as a whole: the throw, the round it opens, and    *)
(* the vote set it passes the vote to.                                     *)
LEMMA AddVoteFromInv ==
  ASSUME NEW s, HeightInv(s), NEW r \in AllRounds, NEW y \in VoteTypes,
         NEW v \in Validators, NEW h \in Hashes,
         NEW p \in Peers \cup {Local}, p = Local => r \in Rounds(s)
  PROVE  LET t == AddVoteFrom(s, r, y, v, h, p)
         IN  HeightInv(t) /\ t.round = s.round /\ KeepsVotes(s, t)
<1> DEFINE t == AddVoteFrom(s, r, y, v, h, p)
           o == OpenRound(s, r, p)
<1>1. CASE IsUnwantedRound(s, r, p)
  BY <1>1 DEF AddVoteFrom, KeepsVotes
<1>2. CASE ~ IsUnwantedRound(s, r, p)
  <2>1. HeightInv(o) /\ o.round = s.round /\ r \in Rounds(o) /\ KeepsVotes(s, o)
    BY <1>2, OpenRoundInv
  <2> DEFINE vs == AddVerifiedVote(o.roundVoteSets[r][y], v, h)
  <2>2. t = [o EXCEPT !.roundVoteSets[r][y] = vs]
    BY <1>2 DEF AddVoteFrom
  <2> HIDE DEF o, t
  <2>3. VoteSetInv(o.roundVoteSets[r][y])
    BY <2>1 DEF HeightInv, VoteSetsOK
  <2>4. /\ VoteSetInv(vs)
        /\ o.roundVoteSets[r][y].maj23 # None => vs.maj23 = o.roundVoteSets[r][y].maj23
        /\ o.roundVoteSets[r][y].votesBitArray \subseteq vs.votesBitArray
    BY <2>3, AddVerifiedVoteInv, AddVerifiedVoteKeeps
  <2> HIDE DEF vs
  <2>5. /\ t \in HeightVoteSetType
        /\ Rounds(t) = Rounds(o)
        /\ t.round = o.round
        /\ t.peerCatchupRounds = o.peerCatchupRounds
        /\ VoteSetsOK(t)
        /\ KeepsVotes(o, t)
    BY <2>1, <2>2, <2>4, ReplaceType DEF HeightInv, HeightVoteSetType
  <2>6. RoundsOK(t)
    BY <2>1, <2>5 DEF HeightInv, RoundsOK
  <2>7. KeepsVotes(s, t)
    BY <2>1, <2>5 DEF KeepsVotes
  <2> QED
    BY <2>1, <2>5, <2>6, <2>7 DEF HeightInv, t
<1> QED
  BY <1>1, <1>2

(* A claim about an open round marks its hash and nothing else.            *)
LEMMA ClaimPeerMaj23Inv ==
  ASSUME NEW s, HeightInv(s), NEW r, NEW y \in VoteTypes, NEW p \in Peers, NEW h \in Hashes
  PROVE  LET t == ClaimPeerMaj23(s, r, y, p, h)
         IN  HeightInv(t) /\ t.round = s.round /\ KeepsVotes(s, t)
<1> DEFINE t == ClaimPeerMaj23(s, r, y, p, h)
<1>1. CASE r \notin Rounds(s)
  BY <1>1 DEF ClaimPeerMaj23, KeepsVotes
<1>2. CASE r \in Rounds(s)
  <2> DEFINE old == s.roundVoteSets[r][y]
             vs == SetPeerMaj23(old, p, h)
  <2>1. t = [s EXCEPT !.roundVoteSets[r][y] = vs]
    BY <1>2 DEF ClaimPeerMaj23
  <2>2. VoteSetInv(old)
    BY <1>2 DEF HeightInv, VoteSetsOK
  <2> HIDE DEF old, t
  <2>3. VoteSetInv(vs) /\ vs.maj23 = old.maj23
    BY <2>2, SetPeerMaj23Inv
  <2>4. old.votesBitArray = vs.votesBitArray
    BY <2>2 DEF SetPeerMaj23, VoteSetInv, VoteSetType
  <2> HIDE DEF vs
  <2>5. /\ t \in HeightVoteSetType
        /\ Rounds(t) = Rounds(s)
        /\ t.round = s.round
        /\ t.peerCatchupRounds = s.peerCatchupRounds
        /\ VoteSetsOK(t)
        /\ KeepsVotes(s, t)
    BY <1>2, <2>1, <2>3, <2>4, ReplaceType DEF HeightInv, HeightVoteSetType, old
  <2>6. RoundsOK(t)
    BY <2>5 DEF HeightInv, RoundsOK
  <2> QED
    BY <2>5, <2>6 DEF HeightInv, t
<1> QED
  BY <1>1, <1>2

(* Entering round q: setRound never throws, as HeightVoteSet's round is    *)
(* one ahead of the node's.                                                *)
LEMMA SetRoundInv ==
  ASSUME NEW s, HeightInv(s), NEW q \in 1 .. MaxRound + 1, s.round < q
  PROVE  LET t == SetRound(s, q)
         IN  HeightInv(t) /\ t.round = q /\ KeepsVotes(s, t)
<1> DEFINE t == SetRound(s, q)
           a == AddRounds(s, s.round .. q)
<1>1. s.round \in AllRounds /\ q \in AllRounds /\ MaxRound + 1 \in Nat
  BY HeightVoteSetAssumption DEF HeightInv, HeightVoteSetType, HeightVoteSets, AllRounds
<1>2. s.round .. q \in SUBSET AllRounds
  BY <1>1 DEF AllRounds
<1>3. /\ a \in HeightVoteSetType
      /\ Rounds(a) = Rounds(s) \cup (s.round .. q)
      /\ a.round = s.round
      /\ a.peerCatchupRounds = s.peerCatchupRounds
      /\ VoteSetsOK(a)
      /\ KeepsVotes(s, a)
  <2> DEFINE R == s.round .. q
  <2>1. R \in SUBSET AllRounds /\ s \in HeightVoteSets(AllRounds, Peers) /\ VoteSetsOK(s)
    BY <1>2 DEF HeightInv, HeightVoteSetType
  <2> HIDE DEF R
  <2>2. LET u == AddRounds(s, R)
        IN  /\ u \in HeightVoteSets(AllRounds, Peers)
            /\ Rounds(u) = Rounds(s) \cup R
            /\ u.round = s.round
            /\ u.peerCatchupRounds = s.peerCatchupRounds
            /\ VoteSetsOK(u)
            /\ KeepsVotes(s, u)
    BY <2>1, AddRoundsType
  <2> QED
    BY <2>2 DEF R, HeightVoteSetType
<1>4. t = [a EXCEPT !.round = q]
  BY <1>1 DEF SetRound, SetRoundFails, AllRounds
<1> HIDE DEF a, t
<1>5. /\ t \in HeightVoteSetType /\ t.round = q
      /\ t.roundVoteSets = a.roundVoteSets
      /\ t.peerCatchupRounds = a.peerCatchupRounds
  BY <1>1, <1>3, <1>4 DEF HeightVoteSetType, HeightVoteSets
<1>6. Rounds(t) = Rounds(s) \cup (s.round .. q)
  BY <1>3, <1>5 DEF Rounds
<1>7. RoundsOK(t)
  <2>1. 0 .. q \subseteq Rounds(t)
    BY <1>1, <1>6 DEF HeightInv, RoundsOK, AllRounds
  <2>2. 0 .. s.round \cup (s.round .. q) \subseteq 0 .. q
    BY <1>1 DEF AllRounds
  <2> QED
    BY <1>3, <1>5, <1>6, <2>1, <2>2 DEF HeightInv, RoundsOK
<1>8. VoteSetsOK(t) /\ KeepsVotes(s, t)
  BY <1>3, <1>5, <1>6 DEF VoteSetsOK, KeepsVotes, Rounds
<1> QED
  BY <1>5, <1>7, <1>8 DEF HeightInv, t

-----------------------------------------------------------------------------
(* A step that keeps the votes keeps the proof-of-lock round too.          *)
LEMMA KeepsVotesIsStep ==
  ASSUME HeightInv(hvs), HeightInv(hvs'), KeepsVotes(hvs, hvs'), hvs.round <= hvs'.round
  PROVE  StepKeepsVotes
<1>1. POLRound(hvs') >= POLRound(hvs)
  BY POLRoundKept DEF HeightInv
<1> QED
  BY <1>1 DEF StepKeepsVotes, KeepsVotes

(* Every step preserves the invariant and keeps the votes.                 *)
LEMMA NextIInv ==
  ASSUME IInv, [Next]_vars
  PROVE  IInv' /\ StepKeepsVotes
<1>1. /\ round \in -1 .. MaxRound /\ hvs.round = round + 1 /\ HeightInv(hvs)
      /\ MaxRound \in Nat /\ Local \notin Peers
  BY HeightVoteSetAssumption DEF IInv
<1> SUFFICES /\ round' \in -1 .. MaxRound
             /\ hvs'.round = round' + 1
             /\ HeightInv(hvs')
             /\ KeepsVotes(hvs, hvs')
             /\ hvs.round <= hvs'.round
  BY <1>1, KeepsVotesIsStep DEF IInv, HeightInv
<1>2. ASSUME NEW r \in 0 .. MaxRound, EnterNewRound(r)
      PROVE  /\ round' \in -1 .. MaxRound /\ hvs'.round = round' + 1
             /\ HeightInv(hvs') /\ KeepsVotes(hvs, hvs') /\ hvs.round <= hvs'.round
  <2>1. /\ r > round /\ round' = r /\ hvs' = SetRound(hvs, r + 1)
        /\ r + 1 \in 1 .. MaxRound + 1 /\ hvs.round < r + 1
    BY <1>1, <1>2 DEF EnterNewRound
  <2>2. HeightInv(hvs') /\ hvs'.round = r + 1 /\ KeepsVotes(hvs, hvs')
    BY <1>1, <2>1, SetRoundInv
  <2> QED
    BY <1>1, <2>1, <2>2
<1>3. ASSUME NEW r \in 0 .. MaxRound + 1, NEW t \in VoteTypes, NEW v \in Validators,
             NEW h \in Hashes, NEW p \in Peers, AddPeerVote(r, t, v, h, p)
      PROVE  HeightInv(hvs') /\ hvs'.round = hvs.round /\ KeepsVotes(hvs, hvs')
             /\ round' = round
  BY <1>1, <1>3, AddVoteFromInv DEF AddPeerVote, AllRounds
<1>4. ASSUME NEW r \in 0 .. MaxRound + 1, NEW t \in VoteTypes, NEW v \in Validators,
             NEW h \in Hashes, AddOwnVote(r, t, v, h)
      PROVE  HeightInv(hvs') /\ hvs'.round = hvs.round /\ KeepsVotes(hvs, hvs')
             /\ round' = round
  <2>1. hvs' = AddVoteFrom(hvs, r, t, v, h, Local) /\ round' = round /\ r <= round
    BY <1>4 DEF AddOwnVote
  <2>2. r \in Rounds(hvs)
    BY <1>1, <2>1 DEF HeightInv, RoundsOK
  <2> QED
    BY <1>1, <2>1, <2>2, AddVoteFromInv DEF AllRounds
<1>5. ASSUME NEW r \in 0 .. MaxRound + 1, NEW p \in Peers, AddInvalidVote(r, p)
      PROVE  HeightInv(hvs') /\ hvs'.round = hvs.round /\ KeepsVotes(hvs, hvs')
             /\ round' = round
  BY <1>1, <1>5, OpenRoundInv DEF AddInvalidVote, AllRounds
<1>6. ASSUME NEW c \in Claims, NEW p \in Peers, NEW b \in BOOLEAN,
             PeerClaim(b, c[1], c[2], p, c[3])
      PROVE  HeightInv(hvs') /\ hvs'.round = hvs.round /\ KeepsVotes(hvs, hvs')
             /\ round' = round
  <2>1. c[2] \in VoteTypes /\ c[3] \in Hashes
    BY HeightVoteSetAssumption
  <2>2. hvs' = hvs \/ hvs' = ClaimPeerMaj23(hvs, c[1], c[2], p, c[3])
    BY <1>6 DEF PeerClaim
  <2>3. CASE hvs' = hvs
    BY <1>1, <1>6, <2>3 DEF PeerClaim, KeepsVotes
  <2>4. CASE hvs' = ClaimPeerMaj23(hvs, c[1], c[2], p, c[3])
    BY <1>1, <1>6, <2>1, <2>4, ClaimPeerMaj23Inv DEF PeerClaim
  <2> QED
    BY <2>2, <2>3, <2>4
<1>7. CASE UNCHANGED vars
  BY <1>1, <1>7 DEF vars, KeepsVotes
<1>8. CASE Next
  <2>1. hvs.round \in Int
    BY <1>1
  <2> QED
    BY <1>1, <1>2, <1>3, <1>4, <1>5, <1>6, <1>8, <2>1 DEF Next
<1> QED
  BY <1>7, <1>8

LEMMA Invariance == Spec => []IInv
  BY InitIInv, NextIInv, PTL DEF Spec

(* The rounds and their vote sets keep their shape (HeightVoteSet).        *)
THEOREM TypeCorrect == Spec => []TypeOK
<1>1. IInv => TypeOK
  <2> SUFFICES ASSUME IInv PROVE TypeOK
    OBVIOUS
  <2>1. /\ hvs.round \in AllRounds /\ round \in -1 .. MaxRound
        /\ hvs.roundVoteSets \in [Rounds(hvs) -> [VoteTypes -> VoteSetType]]
        /\ Rounds(hvs) \subseteq AllRounds /\ CatchupPeers \subseteq Peers
    BY DEF IInv, HeightInv, HeightVoteSetType, HeightVoteSets, Rounds, CatchupPeers
  <2> QED
    BY <2>1 DEF TypeOK, AllRounds
<1> QED
  BY <1>1, Invariance, PTL

(* Whatever peers send, signed or not, the rounds in memory are those the  *)
(* node needs and at most two per peer, and '' has opened none             *)
(* (HeightVoteSet.addVote, setRound).                                      *)
THEOREM RoundsCorrect == Spec => []RoundsAreThose
<1>1. IInv => RoundsAreThose
  <2> SUFFICES ASSUME IInv PROVE RoundsAreThose
    OBVIOUS
  <2>1. /\ RoundsOK(hvs) /\ hvs \in HeightVoteSetType
        /\ round \in -1 .. MaxRound /\ hvs.round = round + 1
        /\ MaxRound \in Nat /\ Local \notin Peers
    BY HeightVoteSetAssumption DEF IInv, HeightInv
  <2>2. CurrentRoundsOpen
    BY <2>1 DEF CurrentRoundsOpen, RoundsOK
  <2>3. \A p \in CatchupPeers : CatchupRounds(hvs, p) = hvs.peerCatchupRounds[p]
    BY DEF CatchupRounds, CatchupPeers
  <2>4. RoundsBounded
    BY <2>1, <2>3 DEF RoundsBounded, RoundsOK, CatchupPeers
  <2>5. LocalOpensNothing
    BY <2>1 DEF LocalOpensNothing, CatchupRounds, HeightVoteSetType, HeightVoteSets
  <2> QED
    BY <2>2, <2>4, <2>5 DEF RoundsAreThose
<1> QED
  BY <1>1, Invariance, PTL

(* No step loses a vote or a +2/3, and the proof-of-lock round never goes  *)
(* back (HeightVoteSet.addVote, setRound, setPeerMaj23).                   *)
THEOREM VotesNeverLost == Spec => VotesKept
<1>1. IInv /\ [Next]_vars => [StepKeepsVotes]_vars
  BY NextIInv
<1> QED
  BY <1>1, Invariance, PTL DEF Spec, VotesKept
=============================================================================
