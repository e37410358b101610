--------------------------- MODULE HeightVoteSet ---------------------------
(***************************************************************************)
(* The HeightVoteSet of vote.ts over one height: the state machine moves   *)
(* its round forward while peers send votes of any round, in any order,    *)
(* correctly signed or not.                                                *)
(***************************************************************************)
EXTENDS VoteSets

CONSTANTS
    Local,      \* the peer id '' of the node's own messages
    MaxRound,   \* bound on the rounds of the model
    Claims      \* bound: the <<round, type, hash>> peers claim +2/3 for

ASSUME HeightVoteSetAssumption ==
    Local \notin Peers /\ MaxRound \in Nat /\ Claims \subseteq Nat \X VoteTypes \X Hashes

VARIABLES
    hvs,        \* the HeightVoteSet object
    round,      \* StateMachine.round; -1 until enterNewRound(height, 0)
    claimed     \* history: the <<round, type, peer, hash>> claims about this height

vars == <<hvs, round, claimed>>

Init == hvs = EmptyHeightVoteSet /\ round = -1 /\ claimed = {}

(* StateMachine.enterNewRound moves to a later round and opens the vote    *)
(* sets up to the next one.                                                *)
EnterNewRound(r) ==
    /\ r > round
    /\ round' = r
    /\ hvs' = SetRound(hvs, r + 1)
    /\ UNCHANGED claimed

(* A correctly signed vote from a peer.                                    *)
AddPeerVote(r, t, v, h, p) ==
    /\ hvs' = AddVoteFrom(hvs, r, t, v, h, p)
    /\ UNCHANGED <<round, claimed>>

(* The node's own vote: signed for a round it has been in.                 *)
AddOwnVote(r, t, v, h) ==
    /\ r <= round
    /\ hvs' = AddVoteFrom(hvs, r, t, v, h, Local)
    /\ UNCHANGED <<round, claimed>>

(* A vote whose signature does not verify: addVote opens the round before  *)
(* VoteSet.addVote throws.                                                 *)
AddInvalidVote(r, p) ==
    /\ ~ IsUnwantedRound(hvs, r, p)
    /\ hvs' = OpenRound(hvs, r, p)
    /\ UNCHANGED <<round, claimed>>

(* StateMachine.setVoteMaj23: a peer claims +2/3 for h, of this height or  *)
(* of another one.  The method returns when the heights are equal, so it   *)
(* is the claim about another height that marks h here.                    *)
PeerClaim(thisHeight, r, t, p, h) ==
    /\ hvs' = IF thisHeight THEN hvs ELSE ClaimPeerMaj23(hvs, r, t, p, h)
    /\ claimed' = IF thisHeight THEN claimed \cup {<<r, t, p, h>>} ELSE claimed
    /\ UNCHANGED round

Next ==
    \/ \E r \in 0 .. MaxRound : EnterNewRound(r)
    \/ \E r \in 0 .. MaxRound + 1, t \in VoteTypes, v \in Validators, h \in Hashes :
          \/ \E p \in Peers : AddPeerVote(r, t, v, h, p)
          \/ AddOwnVote(r, t, v, h)
    \/ \E r \in 0 .. MaxRound + 1, p \in Peers : AddInvalidVote(r, p)
    \/ \E c \in Claims, p \in Peers, b \in BOOLEAN : PeerClaim(b, c[1], c[2], p, c[3])

Spec == Init /\ [][Next]_vars

-----------------------------------------------------------------------------
CatchupPeers == DOMAIN hvs.peerCatchupRounds

(* The rounds and their vote sets have the declared shape.                 *)
TypeOK ==
    /\ round \in -1 .. MaxRound
    /\ hvs.round \in 0 .. MaxRound + 1
    /\ Rounds(hvs) \subseteq 0 .. MaxRound + 1
    /\ \A r \in Rounds(hvs), t \in VoteTypes : hvs.roundVoteSets[r][t] \in VoteSetType
    /\ CatchupPeers \subseteq Peers \cup {Local}

(* The vote sets of every round up to the next one exist once a round is   *)
(* entered, so no vote the node itself needs is ever refused.              *)
CurrentRoundsOpen == round >= 0 => 0 .. round + 1 \subseteq Rounds(hvs)

(* Whatever peers send, signed or not, the rounds held in memory are the   *)
(* node's own and at most two per peer that sent one.                      *)
RoundsBounded ==
    /\ \A p \in CatchupPeers : Cardinality(CatchupRounds(hvs, p)) <= MaxCatchupRounds
    /\ Rounds(hvs) \subseteq
         0 .. hvs.round \cup UNION {CatchupRounds(hvs, p) : p \in CatchupPeers}

(* The node's own votes never count against a catch-up budget: '' opens no *)
(* round.                                                                  *)
LocalOpensNothing == CatchupRounds(hvs, Local) = {}

(* The rounds in memory are those the node needs and two per peer: all     *)
(* three of the above (HeightVoteSet.addVote, setRound).                   *)
RoundsAreThose == CurrentRoundsOpen /\ RoundsBounded /\ LocalOpensNothing

(* No step loses a vote or a +2/3: opening rounds and moving on keep every *)
(* vote set that exists, and the proof-of-lock round that enterPrecommit   *)
(* compares with its own round never goes back.                            *)
StepKeepsVotes ==
    /\ \A r \in Rounds(hvs), t \in VoteTypes :
         /\ r \in Rounds(hvs')
         /\ hvs.roundVoteSets[r][t].votesBitArray
              \subseteq hvs'.roundVoteSets[r][t].votesBitArray
         /\ hvs.roundVoteSets[r][t].maj23 # None =>
              hvs'.roundVoteSets[r][t].maj23 = hvs.roundVoteSets[r][t].maj23
    /\ POLRound(hvs') >= POLRound(hvs)
VotesKept == [][StepKeepsVotes]_vars

(* setVoteMaj23 is documented to "mark target hash as maj23": a claim      *)
(* about an open round of this height is kept.  Only a marked hash lets a  *)
(* conflicting vote count, which a node needs to follow a fork's +2/3.     *)
StepMarksClaims ==
    \A r \in Rounds(hvs), t \in VoteTypes, p \in Peers, h \in Hashes :
        <<r, t, p, h>> \in claimed' \ claimed =>
            hvs'.roundVoteSets[r][t].peerMaj23s[p] # None
ClaimIsMarked == [][StepMarksClaims]_vars
=============================================================================
