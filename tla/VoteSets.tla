------------------------------ MODULE VoteSets ------------------------------
(***************************************************************************)
(* The vote sets of vote.ts as pure operators on records, so that the vote *)
(* set's own specification, the height vote set and the state machine all  *)
(* run the same code.                                                      *)
(*                                                                         *)
(* A VoteSet holds the votes of one type (prevote or precommit) for one    *)
(* height and round.  A vote is its signer and the hash it is for; the     *)
(* signature is valid (addVote rejects the others before anything here     *)
(* runs).  BlockVotes.bitArray always equals the set of its voters and is  *)
(* not kept apart; a map entry of votesByBlock exists exactly when it has  *)
(* a vote or a peer claimed its block, so the map is a total function.     *)
(***************************************************************************)
EXTENDS VotingPower

CONSTANTS
    Blocks,     \* hashes of proposal blocks
    Nil,        \* EMPTY_HASH: the vote for no block
    None,       \* undefined
    Peers       \* ids of the remote peers

ASSUME HashAssumption == Nil \notin Blocks /\ None \notin Blocks \cup {Nil}

Hashes == Blocks \cup {Nil}

BlockVotes == [peerMaj23 : BOOLEAN, votes : SUBSET Validators, sum : Nat]

VoteSetType ==
    [votesBitArray : SUBSET Validators,
     votes         : [Validators -> Hashes \cup {None}],
     sum           : Nat,
     maj23         : Hashes \cup {None},
     votesByBlock  : [Hashes -> BlockVotes],
     peerMaj23s    : [Peers -> Hashes \cup {None}]]

NoBlockVotes == [peerMaj23 |-> FALSE, votes |-> {}, sum |-> 0]

EmptyVoteSet ==
    [votesBitArray |-> {},
     votes         |-> [v \in Validators |-> None],
     sum           |-> 0,
     maj23         |-> None,
     votesByBlock  |-> [h \in Hashes |-> NoBlockVotes],
     peerMaj23s    |-> [p \in Peers |-> None]]

-----------------------------------------------------------------------------
IsDuplicate_AnySecondVote(vs, v, h) == vs.votes[v] # None

(* addVerifiedVote throws DuplicateVotesError.                             *)
IsDuplicate(vs, v, h) == vs.votes[v] = h

(* addVerifiedVote finds an earlier vote of the same validator for another *)
(* hash.                                                                   *)
IsConflicting(vs, v, h) == vs.votes[v] \notin {None, h}

(* ... and returns it: unless a peer claimed +2/3 for this hash, the vote  *)
(* is not counted for its block and becomes evidence.                      *)
ReturnsConflict(vs, v, h) ==
    IsConflicting(vs, v, h) /\ ~ vs.votesByBlock[h].peerMaj23

RecordVote_LastWins(vs, v, h) ==
    [vs EXCEPT !.votes[v] = h,
               !.votesBitArray = @ \cup {v},
               !.sum = IF vs.votes[v] = None THEN @ + VotingPower[v] ELSE @]

(* The first half of addVerifiedVote: the first vote of a validator counts *)
(* towards "any +2/3"; a conflicting one replaces it only for the hash     *)
(* that already has its +2/3.                                              *)
RecordVote(vs, v, h) ==
    CASE vs.votes[v] = None ->
             [vs EXCEPT !.votes[v] = h,
                        !.votesBitArray = @ \cup {v},
                        !.sum = @ + VotingPower[v]]
      [] vs.votes[v] # None /\ vs.maj23 = h ->
             [vs EXCEPT !.votes[v] = h, !.votesBitArray = @ \cup {v}]
      [] OTHER -> vs

AddToBlock_CountsAgain(bv, v) ==
    [bv EXCEPT !.votes = @ \cup {v}, !.sum = @ + VotingPower[v]]

(* BlockVotes.addVerifiedVote.                                             *)
AddToBlock(bv, v) ==
    IF v \in bv.votes THEN bv
    ELSE [bv EXCEPT !.votes = @ \cup {v}, !.sum = @ + VotingPower[v]]

CompletesMajority_Late(vs, before, after) ==
    before < Quorum /\ Quorum < after /\ vs.maj23 = None
CompletesMajority_Early(vs, before, after) ==
    before < TwoThirds /\ TwoThirds <= after /\ vs.maj23 = None
CompletesMajority_Again(vs, before, after) ==
    before < Quorum /\ Quorum <= after

(* The vote that raises a block's sum to the quorum, for the first time.   *)
CompletesMajority(vs, before, after) ==
    before < Quorum /\ Quorum <= after /\ vs.maj23 = None

(* The second half: count the vote for its block; the vote that completes  *)
(* the first +2/3 sets maj23 and copies the block's votes over the others. *)
CountVote(vs, v, h) ==
    LET bv      == AddToBlock(vs.votesByBlock[h], v)
        counted == [vs EXCEPT !.votesByBlock[h] = bv]
    IN  IF CompletesMajority(vs, vs.votesByBlock[h].sum, bv.sum)
        THEN [counted EXCEPT
                !.maj23 = h,
                !.votes = [w \in Validators |-> IF w \in bv.votes THEN h ELSE @[w]]]
        ELSE counted

(* VoteSet.addVerifiedVote: the vote set after the call, whether it        *)
(* returns, returns a conflicting vote or throws.                          *)
AddVerifiedVote(vs, v, h) ==
    IF IsDuplicate(vs, v, h) THEN vs
    ELSE IF ReturnsConflict(vs, v, h) THEN RecordVote(vs, v, h)
    ELSE CountVote(RecordVote(vs, v, h), v, h)

(* VoteSet.setPeerMaj23 throws "conflicting maj23 block" for a second hash *)
(* of one peer; otherwise the claim is kept and the block's entry marked.  *)
SetPeerMaj23(vs, p, h) ==
    IF vs.peerMaj23s[p] # None THEN vs
    ELSE [vs EXCEPT !.peerMaj23s[p] = h, !.votesByBlock[h].peerMaj23 = TRUE]

HasTwoThirdsMajority(vs) == vs.maj23 # None

HasTwoThirdsAny(vs) == vs.sum > TwoThirds

(* getAggregatedBitArray: the signers whose signatures the block's seal    *)
(* aggregates (and, before BLS, the votes ExtraData.raw writes).           *)
AggregatedBitArray(vs) ==
    {v \in vs.votesBitArray : vs.votes[v] = vs.maj23}

(* setAggregatedSignature on the fresh vote set ExtraData builds from a    *)
(* block header: maj23 is set if the signers hold more than two thirds.    *)
SetAggregatedSignature(vs, bits, h) ==
    IF PowerOf(bits) <= TwoThirds THEN vs
    ELSE [vs EXCEPT !.maj23 = h, !.votesBitArray = bits]

-----------------------------------------------------------------------------
(* HeightVoteSet: the vote sets of the rounds of one height.               *)

VoteTypes == {"prevotes", "precommits"}

NewRoundVoteSet == [t \in VoteTypes |-> EmptyVoteSet]

(* new HeightVoteSet(...): no round has a vote set yet.                    *)
EmptyHeightVoteSet ==
    [round |-> 0,
     roundVoteSets |-> [r \in {} |-> NewRoundVoteSet],
     peerCatchupRounds |-> [p \in {} |-> {}]]

Rounds(hvs) == DOMAIN hvs.roundVoteSets

AddRounds_Fresh(hvs, R) ==
    [hvs EXCEPT !.roundVoteSets =
        [r \in Rounds(hvs) \cup R |->
            IF r \in R THEN NewRoundVoteSet ELSE hvs.roundVoteSets[r]]]

AddRounds(hvs, R) ==
    [hvs EXCEPT !.roundVoteSets =
        [r \in Rounds(hvs) \cup R |->
            IF r \in Rounds(hvs) THEN hvs.roundVoteSets[r] ELSE NewRoundVoteSet]]

(* setRound throws "must increment round".                                 *)
SetRoundFails(hvs, round) == hvs.round # 0 /\ round < hvs.round

SetRound(hvs, round) ==
    IF SetRoundFails(hvs, round) THEN hvs
    ELSE [AddRounds(hvs, hvs.round .. round) EXCEPT !.round = round]

(* getVoteSet(r, t); an absent round has no votes.                         *)
GetVoteSet(hvs, r, t) ==
    IF r \in Rounds(hvs) THEN hvs.roundVoteSets[r][t] ELSE EmptyVoteSet

CatchupRounds(hvs, p) ==
    IF p \in DOMAIN hvs.peerCatchupRounds THEN hvs.peerCatchupRounds[p] ELSE {}

MaxCatchupRounds == 2

IsUnwantedRound_OneMore(hvs, r, p) ==
    r \notin Rounds(hvs) /\ Cardinality(CatchupRounds(hvs, p)) > MaxCatchupRounds

(* addVote throws "unwanted round": the round has no vote set and the peer *)
(* has already opened two.                                                 *)
IsUnwantedRound(hvs, r, p) ==
    r \notin Rounds(hvs) /\ Cardinality(CatchupRounds(hvs, p)) >= MaxCatchupRounds

(* A vote for an unknown round opens it on the peer's account.             *)
OpenRound(hvs, r, p) ==
    IF r \in Rounds(hvs) THEN hvs
    ELSE [AddRounds(hvs, {r}) EXCEPT
            !.peerCatchupRounds =
                [q \in DOMAIN @ \cup {p} |->
                    IF q = p THEN CatchupRounds(hvs, p) \cup {r} ELSE @[q]]]

(* HeightVoteSet.addVote: the vote of validator v for h, from peer p.      *)
AddVoteFrom(hvs, r, t, v, h, p) ==
    IF IsUnwantedRound(hvs, r, p) THEN hvs
    ELSE LET opened == OpenRound(hvs, r, p)
         IN  [opened EXCEPT !.roundVoteSets[r][t] = AddVerifiedVote(@, v, h)]

(* addVote returns normally: no duplicate, no conflict, no unwanted round. *)
AddVoteSucceeds(hvs, r, t, v, h, p) ==
    /\ ~ IsUnwantedRound(hvs, r, p)
    /\ ~ IsDuplicate(GetVoteSet(hvs, r, t), v, h)
    /\ ~ ReturnsConflict(GetVoteSet(hvs, r, t), v, h)

(* HeightVoteSet.setPeerMaj23: a claim about an absent round is dropped.   *)
ClaimPeerMaj23(hvs, r, t, p, h) ==
    IF r \notin Rounds(hvs) THEN hvs
    ELSE [hvs EXCEPT !.roundVoteSets[r][t] = SetPeerMaj23(@, p, h)]

(* POLInfo: the highest round, up to the current one, whose prevotes have  *)
(* +2/3 for one hash; -1 if there is none.                                 *)
POLRound(hvs) ==
    LET R == {r \in Rounds(hvs) : /\ r <= hvs.round
                                  /\ HasTwoThirdsMajority(hvs.roundVoteSets[r]["prevotes"])}
    IN  IF R = {} THEN -1 ELSE CHOOSE r \in R : \A q \in R : q <= r
=============================================================================
